---- MODULE Spec2Model ----
(***************************************************************************)
(* MessageBoard: the Redis fixed-window rate limiter (MessageRateLimiter), *)
(* the per-user message chain kept by the Message model's save hooks, and  *)
(* MessageService.postMessage / getRateLimitStatus, which sequence them.   *)
(* Every await of the JavaScript code is one step of a call, so that       *)
(* concurrent calls interleave exactly at the store round trips.           *)
(***************************************************************************)
EXTENDS Integers, FiniteSets, Sequences, TLC

(* ------------------------------ bounds -------------------------------- *)
\* number of service calls one behaviour makes
MaxCalls == 3
\* environment.rateLimit.maxRequests (RATE_LIMIT_MAX_REQUESTS), scaled down
maxRequests == 2
\* environment.rateLimit.windowMs (RATE_LIMIT_WINDOW_MS), scaled down
windowMs == 2000
\* the clock advances in steps of TickMs up to MaxTime
TickMs == 1000
MaxTime == 3000
\* number of calls a sequential client makes
SeqCalls == 4

(* ------------------------- program constants -------------------------- *)
MaxBodyLen == 1000

(* ------------------------------ values -------------------------------- *)
NULL == 0
Users == {"u1", "u2"}
GhostUser == "ghost"
NoUser == "none"
UserIds == Users \cup {GhostUser}
Windows == 0..(MaxTime \div windowMs)
Keys == UserIds \X Windows
CallIds == 1..(IF SeqCalls > MaxCalls THEN SeqCalls ELSE MaxCalls)
MsgIds == CallIds
Times == {t \in 0..MaxTime : t % TickMs = 0}

Max(a, b) == IF a >= b THEN a ELSE b
Min(a, b) == IF a <= b THEN a ELSE b

\* A message body: `lead' whitespace characters, a `core' that starts and ends
\* with a non-blank character (or is empty), `trail' whitespace characters.
NoBody == [lead |-> -1, core |-> -1, trail |-> -1]
Body(l, c, t) == [lead |-> l, core |-> c, trail |-> t]
BodyLen(b) == b.lead + b.core + b.trail
Trim(b) == Body(0, b.core, 0)
GoodBody == Body(0, 5, 0)
Bodies ==
  { NoBody, Body(0, 0, 0), Body(3, 0, 0), GoodBody, Body(2, 2, 2),
    Body(0, MaxBodyLen, 0), Body(0, MaxBodyLen + 1, 0), Body(1, MaxBodyLen, 0) }

VARIABLES
  now,        \* Date.now(), in ms
  stamp,      \* the latest value of Date.now() given to a message's createdAt
  redisUp,    \* whether the Redis server answers
  counter,    \* Redis: key -> [count, expireAt]; count = 0 is a missing key
  msgs,       \* MongoDB messages: id -> document, or NoMsg
  nextId,     \* the next ObjectId a new Message gets
  postCount,  \* MongoDB users: postCount
  lastPostAt, \* MongoDB users: lastPostAt (NULL or a clock reading)
  calls,      \* the service calls: position and local variables of each
  ncalls,     \* how many calls this behaviour makes
  prior       \* the count the window's counter had before the first call

vars ==
  <<now, stamp, redisUp, counter, msgs, nextId, postCount, lastPostAt, calls,
    ncalls, prior>>

(* --------------------------- Redis counter ---------------------------- *)
NoKey == [count |-> 0, expireAt |-> 0]

\* Faulty variant of getKey: one key per user, whatever the time.
getKeyNoWindow(userId, t) == <<userId, 0>>

\* rateLimiter.js getKey: rate_limit:user:<userId>:<floor(now / windowMs)>
getKey(userId, t) == <<userId, t \div windowMs>>

\* rateLimiter.js:104 Math.ceil(windowMs / 1000)
ttlSeconds == (windowMs + 999) \div 1000

\* Redis TTL: -2 for a missing key, else the remaining time rounded to seconds
TTL(cnt, k, t) ==
  IF cnt[k].count = 0 THEN -2 ELSE ((cnt[k].expireAt - t) + 500) \div 1000

\* Redis GET followed by `|| 0'
GET(cnt, k) == cnt[k].count

\* Faulty variant of LuaStore: INCR runs before the limit is looked at.
LuaStoreAlways(cnt, k, t) ==
  [cnt EXCEPT ![k] =
     [count |-> cnt[k].count + 1,
      expireAt |-> IF cnt[k].count + 1 = 1 THEN t + ttlSeconds * 1000
                   ELSE cnt[k].expireAt]]

\* Faulty variant of LuaStore: the limit test is `>' instead of `>='.
LuaStoreOff(cnt, k, t) ==
  IF cnt[k].count # 0 /\ cnt[k].count > maxRequests
  THEN cnt
  ELSE [cnt EXCEPT ![k] =
          [count |-> cnt[k].count + 1,
           expireAt |-> IF cnt[k].count + 1 = 1 THEN t + ttlSeconds * 1000
                        ELSE cnt[k].expireAt]]

\* Faulty variant of LuaStore: the limited branch renews the key's expiry.
LuaStoreExpire(cnt, k, t) ==
  LET current == cnt[k].count IN
  IF current # 0 /\ current >= maxRequests
  THEN [cnt EXCEPT ![k].expireAt = t + ttlSeconds * 1000]
  ELSE [cnt EXCEPT ![k] =
          [count |-> current + 1,
           expireAt |-> IF current + 1 = 1 THEN t + ttlSeconds * 1000
                        ELSE cnt[k].expireAt]]

\* Faulty variant of LuaStore: the key expires at the end of its window.
LuaStoreWindowEnd(cnt, k, t) ==
  LET current == cnt[k].count IN
  IF current # 0 /\ current >= maxRequests
  THEN cnt
  ELSE [cnt EXCEPT ![k] =
          [count |-> current + 1,
           expireAt |-> IF current + 1 = 1 THEN (k[2] + 1) * windowMs
                        ELSE cnt[k].expireAt]]

\* The Lua script of checkAndRecordRequest, run atomically by Redis at time t:
\* the store it leaves.
LuaStore(cnt, k, t) ==
  LET current == cnt[k].count IN
  IF current # 0 /\ current >= maxRequests
  THEN cnt
  ELSE [cnt EXCEPT ![k] =
          [count |-> current + 1,
           expireAt |-> IF current + 1 = 1 THEN t + ttlSeconds * 1000
                        ELSE cnt[k].expireAt]]

\* Faulty variant of LuaReply: a full counter is reported as not limited.
LuaReplyOpen(cnt, k, t) ==
  LET current == cnt[k].count IN
  IF current # 0 /\ current >= maxRequests
  THEN [count |-> current, limited |-> 0, ttl |-> TTL(cnt, k, t)]
  ELSE [count |-> current + 1,
        limited |-> IF current + 1 > maxRequests THEN 1 ELSE 0,
        ttl |-> TTL(LuaStore(cnt, k, t), k, t)]

\* Faulty variant of LuaReply: the count read before INCR is returned.
LuaReplyStale(cnt, k, t) ==
  LET current == cnt[k].count IN
  IF current # 0 /\ current >= maxRequests
  THEN [count |-> current, limited |-> 1, ttl |-> TTL(cnt, k, t)]
  ELSE [count |-> current,
        limited |-> IF current + 1 > maxRequests THEN 1 ELSE 0,
        ttl |-> TTL(LuaStore(cnt, k, t), k, t)]

\* ... and the {count, is_limited, ttl} it returns.
LuaReply(cnt, k, t) ==
  LET current == cnt[k].count IN
  IF current # 0 /\ current >= maxRequests
  THEN [count |-> current, limited |-> 1, ttl |-> TTL(cnt, k, t)]
  ELSE [count |-> current + 1,
        limited |-> IF current + 1 > maxRequests THEN 1 ELSE 0,
        ttl |-> TTL(LuaStore(cnt, k, t), k, t)]

NoInfo ==
  [isLimited |-> FALSE, remainingRequests |-> -1, resetTime |-> -1,
   currentCount |-> -1]

\* Faulty variant of RecordResult: the flag is compared with the string '1'.
RecordResultFlag(reply, t) ==
  [isLimited |-> FALSE,
   remainingRequests |-> Max(0, maxRequests - reply.count),
   resetTime |-> t + reply.ttl * 1000,
   currentCount |-> reply.count]

\* checkAndRecordRequest, lines 130-153: the result built from the reply
RecordResult(reply, t) ==
  [isLimited |-> reply.limited = 1,
   remainingRequests |-> Max(0, maxRequests - reply.count),
   resetTime |-> t + reply.ttl * 1000,
   currentCount |-> reply.count]

\* Faulty variant of RecordFallback: the limiter fails closed.
RecordFallbackClosed(t) ==
  [isLimited |-> TRUE,
   remainingRequests |-> 0,
   resetTime |-> t + windowMs,
   currentCount |-> maxRequests]

\* Faulty variant of RecordFallback: remainingRequests is not reduced by the
\* request that is let through.
RecordFallbackFull(t) ==
  [isLimited |-> FALSE,
   remainingRequests |-> maxRequests,
   resetTime |-> t + windowMs,
   currentCount |-> 1]

\* checkAndRecordRequest, lines 90-100 and 158-166: Redis unavailable
RecordFallback(t) ==
  [isLimited |-> FALSE,
   remainingRequests |-> maxRequests - 1,
   resetTime |-> t + windowMs,
   currentCount |-> 1]

\* Faulty variant of StatusResult: isLimited tests `>' instead of `>='.
StatusResultGt(currentCount, ttl, t) ==
  [isLimited |-> currentCount > maxRequests,
   remainingRequests |-> Max(0, maxRequests - currentCount),
   resetTime |-> IF ttl > 0 THEN t + ttl * 1000 ELSE t + windowMs,
   currentCount |-> currentCount]

\* checkRateLimit, lines 183-197: the status built from GET and TTL
StatusResult(currentCount, ttl, t) ==
  [isLimited |-> currentCount >= maxRequests,
   remainingRequests |-> Max(0, maxRequests - currentCount),
   resetTime |-> IF ttl > 0 THEN t + ttl * 1000 ELSE t + windowMs,
   currentCount |-> currentCount]

\* checkRateLimit, lines 171-179 and 198-207: Redis unavailable
StatusFallback(t) ==
  [isLimited |-> FALSE,
   remainingRequests |-> maxRequests,
   resetTime |-> t + windowMs,
   currentCount |-> 0]

(* ------------------------ MongoDB documents --------------------------- *)
NoMsg ==
  [user |-> NoUser, createdAt |-> -1, previousMessage |-> NULL,
   nextMessage |-> NULL, body |-> NoBody]

Exists(ms, m) == m # NULL /\ ms[m] # NoMsg

MessagesOf(ms, u) == {m \in MsgIds : ms[m] # NoMsg /\ ms[m].user = u}

\* Faulty variant of LatestOf: the sort is ascending ({ createdAt: 1 }).
OldestOf(ms, u) ==
  {m \in MessagesOf(ms, u) :
     \A o \in MessagesOf(ms, u) : ms[o].createdAt >= ms[m].createdAt}

\* Faulty variant of LatestOf: the query has no { user } filter.
LatestOfAnyUser(ms, u) ==
  {m \in MsgIds :
     /\ ms[m] # NoMsg
     /\ \A o \in MsgIds : ms[o] # NoMsg => ms[o].createdAt <= ms[m].createdAt}

\* Message pre('save'): findOne({ user }).sort({ createdAt: -1 }). MongoDB
\* leaves the order of documents with equal createdAt open.
LatestOf(ms, u) ==
  {m \in MessagesOf(ms, u) :
     \A o \in MessagesOf(ms, u) : ms[o].createdAt <= ms[m].createdAt}

(* ----------------------------- the calls ------------------------------ *)
NewCall ==
  [pc |-> "new", op |-> "none", user |-> NoUser, body |-> NoBody,
   kw |-> -1, rl |-> NoInfo, evals |-> 0, fb |-> FALSE,
   mid |-> NULL, cat |-> -1, cnow |-> -1, prev |-> NULL,
   sw |-> -1, scount |-> -1,
   tgt |-> NULL, tprev |-> NULL, tnext |-> NULL,
   out |-> "none", info |-> NoInfo]

Active(c) == calls[c].pc \notin {"new", "done"}

\* calls start in the order of their numbers
MayStart(c) ==
  /\ c <= ncalls
  /\ calls[c].pc = "new"
  /\ \A d \in CallIds : d < c => calls[d].pc # "new"

\* A call returns: its result stays, the locals holding store addresses go
Finish(cl, kind, info) ==
  [cl EXCEPT !.pc = "done", !.out = kind, !.info = info,
             !.sw = -1, !.scount = -1, !.cnow = -1,
             !.tgt = NULL, !.tprev = NULL, !.tnext = NULL]

\* Faulty variant of Validate: the length of the body is not checked.
ValidateNoMax(userId, body) ==
  IF userId = NoUser THEN "ValidationError"
  ELSE IF body = NoBody \/ BodyLen(body) = 0 THEN "ValidationError"
  ELSE IF BodyLen(Trim(body)) = 0 THEN "ValidationError"
  ELSE "ok"

\* Faulty variant of Validate: the length is tested after trimming.
ValidateTrimmed(userId, body) ==
  IF userId = NoUser THEN "ValidationError"
  ELSE IF body = NoBody \/ BodyLen(body) = 0 THEN "ValidationError"
  ELSE IF BodyLen(Trim(body)) = 0 THEN "ValidationError"
  ELSE IF BodyLen(Trim(body)) > MaxBodyLen THEN "ValidationError"
  ELSE "ok"

\* messageService.js postMessage, lines 10-25: "ok" or the error thrown
Validate(userId, body) ==
  IF userId = NoUser THEN "ValidationError"
  ELSE IF body = NoBody \/ BodyLen(body) = 0 THEN "ValidationError"
  ELSE IF BodyLen(Trim(body)) = 0 THEN "ValidationError"
  ELSE IF BodyLen(body) > MaxBodyLen THEN "ValidationError"
  ELSE "ok"

\* Message schema, lines 5-11: the body validators run by save()
SchemaValid(body) == BodyLen(Trim(body)) >= 1 /\ BodyLen(Trim(body)) <= MaxBodyLen

\* checkRateLimit up to its first await: no client -> the fallback status at
\* once, else the key is computed and GET is issued.
EnterStatus(cl, kind, t, up) ==
  IF ~up THEN Finish(cl, kind, StatusFallback(t))
  ELSE [cl EXCEPT !.pc = "crlGet", !.out = kind, !.sw = getKey(cl.user, t)[2]]

\* The values Date.now() can give the createdAt of a message built now: the
\* clock has millisecond resolution, so it equals the createdAt of a call
\* still running at this instant, or is later than every earlier one.
ConstructTimes(c) ==
  IF \E d \in CallIds \ {c} :
       Active(d) /\ calls[d].mid # NULL /\ calls[d].cat = stamp /\ calls[d].cnow = now
  THEN {stamp, stamp + 1}
  ELSE {stamp + 1}

\* Faulty variant of AfterRateLimit: isLimited is not looked at.
AfterRateLimitNoThrow(c, cl, result) ==
  \E t \in ConstructTimes(c) :
    /\ stamp' = t
    /\ nextId' = nextId + 1
    /\ calls' = [calls EXCEPT ![c] =
         [cl EXCEPT !.rl = result, !.mid = nextId, !.cat = t,
                    !.cnow = now, !.pc = "preUser"]]

\* postMessage, lines 35-63, once checkAndRecordRequest returned `result':
\* RateLimitError and the catch block's checkRateLimit, or new Message + save().
AfterRateLimit(c, cl, result) ==
  IF result.isLimited
  THEN /\ calls' = [calls EXCEPT ![c] =
                      EnterStatus([cl EXCEPT !.rl = result], "RateLimited", now, redisUp)]
       /\ UNCHANGED <<stamp, nextId>>
  ELSE \E t \in ConstructTimes(c) :
         /\ stamp' = t
         /\ nextId' = nextId + 1
         /\ calls' = [calls EXCEPT ![c] =
              IF SchemaValid(Trim(cl.body))
              THEN [cl EXCEPT !.rl = result, !.mid = nextId, !.cat = t,
                              !.cnow = now, !.pc = "preUser"]
              ELSE Finish([cl EXCEPT !.rl = result], "InternalError", NoInfo)]

\* checkAndRecordRequest returns `result' to its caller: postMessage, or a
\* direct caller of the rate limiter
Recorded(c, cl, result) ==
  IF cl.op = "record"
  THEN /\ calls' = [calls EXCEPT ![c] = Finish([cl EXCEPT !.rl = result], "record", result)]
       /\ UNCHANGED <<stamp, nextId>>
  ELSE AfterRateLimit(c, cl, result)

Store == <<counter, msgs, postCount, lastPostAt>>
Env == <<now, redisUp, ncalls, prior>>

\* Faulty variant of StartPost: the input is not validated before the user
\* lookup.
StartPostNoValidate(c, u, b) ==
  /\ MayStart(c)
  /\ calls' = [calls EXCEPT ![c] =
       [@ EXCEPT !.op = "post", !.user = u, !.body = b, !.pc = "findUser"]]
  /\ UNCHANGED <<Store, Env, stamp, nextId>>

\* postMessage(userId, body) is called: validation, then User.findById
StartPost(c, u, b) ==
  /\ MayStart(c)
  /\ calls' = [calls EXCEPT ![c] =
       LET cl == [@ EXCEPT !.op = "post", !.user = u, !.body = b] IN
       IF Validate(u, b) # "ok"
       THEN Finish(cl, Validate(u, b), NoInfo)
       ELSE [cl EXCEPT !.pc = "findUser"]]
  /\ UNCHANGED <<Store, Env, stamp, nextId>>

\* Faulty variant of FindUser: the rate limiter is called for a user that
\* was not found.
FindUserNoCheck(c) ==
  /\ calls[c].pc = "findUser"
  /\ LET cl == calls[c] IN
     IF ~redisUp
     THEN Recorded(c, [cl EXCEPT !.fb = TRUE], RecordFallback(now))
     ELSE /\ calls' = [calls EXCEPT ![c] =
                 [cl EXCEPT !.pc = "eval", !.kw = getKey(cl.user, now)[2]]]
          /\ UNCHANGED <<stamp, nextId>>
  /\ UNCHANGED <<Store, Env>>

\* User.findById answers; checkAndRecordRequest starts: without a client it
\* returns the fallback at once, else it computes the key and sends the script
FindUser(c) ==
  /\ calls[c].pc = "findUser"
  /\ LET cl == calls[c] IN
     IF cl.user \notin Users
     THEN /\ calls' = [calls EXCEPT ![c] = Finish(cl, "NotFoundError", NoInfo)]
          /\ UNCHANGED <<stamp, nextId>>
     ELSE IF ~redisUp
     THEN Recorded(c, [cl EXCEPT !.fb = TRUE], RecordFallback(now))
     ELSE /\ calls' = [calls EXCEPT ![c] =
                 [cl EXCEPT !.pc = "eval", !.kw = getKey(cl.user, now)[2]]]
          /\ UNCHANGED <<stamp, nextId>>
  /\ UNCHANGED <<Store, Env>>

\* redis.eval: Redis runs the Lua script atomically, or the call throws
Eval(c) ==
  /\ calls[c].pc = "eval"
  /\ LET cl == [calls[c] EXCEPT !.evals = @ + 1]
         k == <<cl.user, cl.kw>>
     IN IF redisUp
        THEN /\ counter' = LuaStore(counter, k, now)
             /\ Recorded(c, cl, RecordResult(LuaReply(counter, k, now), now))
        ELSE /\ counter' = counter
             /\ Recorded(c, [cl EXCEPT !.fb = TRUE], RecordFallback(now))
  /\ UNCHANGED <<msgs, postCount, lastPostAt, Env>>

\* Message pre('save'): User.findById(this.user)
PreSaveUser(c) ==
  /\ calls[c].pc = "preUser"
  /\ calls' = [calls EXCEPT ![c] =
       IF @.user \in Users THEN [@ EXCEPT !.pc = "preLatest"]
       ELSE Finish(@, "InternalError", NoInfo)]
  /\ UNCHANGED <<Store, Env, stamp, nextId>>

\* Message pre('save'): the latest message of the user is looked up
PreSaveLatest(c) ==
  /\ calls[c].pc = "preLatest"
  /\ IF LatestOf(msgs, calls[c].user) = {}
     THEN calls' = [calls EXCEPT ![c] = [@ EXCEPT !.pc = "insert", !.prev = NULL]]
     ELSE \E m \in LatestOf(msgs, calls[c].user) :
            calls' = [calls EXCEPT ![c] = [@ EXCEPT !.pc = "preLink", !.prev = m]]
  /\ UNCHANGED <<Store, Env, stamp, nextId>>

\* Message pre('save'): findByIdAndUpdate(latest, { nextMessage: this._id })
PreSaveLink(c) ==
  /\ calls[c].pc = "preLink"
  /\ msgs' = IF Exists(msgs, calls[c].prev)
             THEN [msgs EXCEPT ![calls[c].prev].nextMessage = calls[c].mid]
             ELSE msgs
  /\ calls' = [calls EXCEPT ![c].pc = "insert"]
  /\ UNCHANGED <<counter, postCount, lastPostAt, Env, stamp, nextId>>

\* Faulty variant of Insert: the new document's nextMessage is the latest
\* message as well.
InsertNextBack(c) ==
  /\ calls[c].pc = "insert"
  /\ msgs' = [msgs EXCEPT ![calls[c].mid] =
       [user |-> calls[c].user, createdAt |-> calls[c].cat,
        previousMessage |-> calls[c].prev, nextMessage |-> calls[c].prev,
        body |-> Trim(calls[c].body)]]
  /\ calls' = [calls EXCEPT ![c].pc = "postSave"]
  /\ UNCHANGED <<counter, postCount, lastPostAt, Env, stamp, nextId>>

\* Faulty variant of Insert: the latest message is looked up again when the
\* document is written.
InsertRelook(c) ==
  /\ calls[c].pc = "insert"
  /\ \E p \in IF LatestOf(msgs, calls[c].user) = {} THEN {NULL}
              ELSE LatestOf(msgs, calls[c].user) :
       msgs' = [msgs EXCEPT ![calls[c].mid] =
         [user |-> calls[c].user, createdAt |-> calls[c].cat,
          previousMessage |-> p, nextMessage |-> NULL,
          body |-> Trim(calls[c].body)]]
  /\ calls' = [calls EXCEPT ![c].pc = "postSave"]
  /\ UNCHANGED <<counter, postCount, lastPostAt, Env, stamp, nextId>>

\* save(): the document is inserted
Insert(c) ==
  /\ calls[c].pc = "insert"
  /\ msgs' = [msgs EXCEPT ![calls[c].mid] =
       [user |-> calls[c].user, createdAt |-> calls[c].cat,
        previousMessage |-> calls[c].prev, nextMessage |-> NULL,
        body |-> Trim(calls[c].body)]]
  /\ calls' = [calls EXCEPT ![c].pc = "postSave"]
  /\ UNCHANGED <<counter, postCount, lastPostAt, Env, stamp, nextId>>

\* Faulty variant of SaveFails: the catch block gives the quota unit back.
SaveFailsRollback(c) ==
  /\ calls[c].pc \in {"preUser", "preLatest", "preLink", "insert"}
  /\ calls' = [calls EXCEPT ![c] = Finish(@, "InternalError", NoInfo)]
  /\ counter' = [counter EXCEPT ![<<calls[c].user, calls[c].kw>>].count =
                   Max(0, @ - 1)]
  /\ UNCHANGED <<msgs, postCount, lastPostAt, Env, stamp, nextId>>

\* Faulty variant of SaveFails: the rejection is swallowed and the call goes on.
SaveFailsMasked(c) ==
  /\ calls[c].pc \in {"preUser", "preLatest", "preLink", "insert"}
  /\ calls' = [calls EXCEPT ![c].pc = "populate"]
  /\ UNCHANGED <<Store, Env, stamp, nextId>>

\* Faulty variant of SaveFails: a rejected save() is started again.
SaveFailsRetry(c) ==
  /\ calls[c].pc \in {"preUser", "preLatest", "preLink", "insert"}
  /\ calls' = [calls EXCEPT ![c].pc = "preUser"]
  /\ UNCHANGED <<Store, Env, stamp, nextId>>

\* message.save() rejects: a query of the pre-save hook or the insert fails in
\* MongoDB; postMessage's catch logs and throws Error('Failed to post message')
SaveFails(c) ==
  /\ calls[c].pc \in {"preUser", "preLatest", "preLink", "insert"}
  /\ calls' = [calls EXCEPT ![c] = Finish(@, "InternalError", NoInfo)]
  /\ UNCHANGED <<Store, Env, stamp, nextId>>

\* The values new Date() can give in post('save'): the hook runs after every
\* createdAt handed out so far was read, so its clock reading equals the
\* latest of them or is later.
PostSaveTimes == {stamp, stamp + 1}

\* Message post('save'): $inc postCount, lastPostAt = new Date()
PostSave(c) ==
  /\ calls[c].pc = "postSave"
  /\ IF calls[c].user \in Users
     THEN /\ postCount' = [postCount EXCEPT ![calls[c].user] = @ + 1]
          /\ \E t \in PostSaveTimes :
               lastPostAt' = [lastPostAt EXCEPT ![calls[c].user] = t]
     ELSE UNCHANGED <<postCount, lastPostAt>>
  /\ calls' = [calls EXCEPT ![c].pc = "populate"]
  /\ UNCHANGED <<counter, msgs, Env, stamp, nextId>>

\* Message post('save'): User.findByIdAndUpdate rejects; the hook's catch logs
\* the error with console.error and save() resolves
PostSaveFails(c) ==
  /\ calls[c].pc = "postSave"
  /\ calls' = [calls EXCEPT ![c].pc = "populate"]
  /\ UNCHANGED <<Store, Env, stamp, nextId>>

\* postMessage, lines 66-70: the two populate reads, then checkRateLimit starts
Populate(c) ==
  /\ calls[c].pc = "populate"
  /\ calls' = [calls EXCEPT ![c] = EnterStatus(@, "success", now, redisUp)]
  /\ UNCHANGED <<Store, Env, stamp, nextId>>

\* Faulty variant of StatusGet: INCR is sent instead of GET.
StatusGetIncr(c) ==
  /\ calls[c].pc = "crlGet"
  /\ LET cl == calls[c]
         k == <<cl.user, cl.sw>>
     IN /\ calls' = [calls EXCEPT ![c] =
              IF redisUp
              THEN [cl EXCEPT !.pc = "crlTtl", !.scount = GET(counter, k) + 1]
              ELSE Finish(cl, cl.out, StatusFallback(now))]
        /\ counter' = IF redisUp THEN LuaStoreAlways(counter, k, now) ELSE counter
  /\ UNCHANGED <<msgs, postCount, lastPostAt, Env, stamp, nextId>>

\* checkRateLimit: redis.get(key) answers, or throws
StatusGet(c) ==
  /\ calls[c].pc = "crlGet"
  /\ calls' = [calls EXCEPT ![c] =
       LET cl == calls[c] IN
       IF redisUp
       THEN [cl EXCEPT !.pc = "crlTtl", !.scount = GET(counter, <<cl.user, cl.sw>>)]
       ELSE Finish(cl, cl.out, StatusFallback(now))]
  /\ UNCHANGED <<Store, Env, stamp, nextId>>

\* checkRateLimit: redis.ttl(key) answers, or throws; the status is returned
StatusTtl(c) ==
  /\ calls[c].pc = "crlTtl"
  /\ calls' = [calls EXCEPT ![c] =
       LET cl == calls[c] IN
       IF redisUp
       THEN Finish(cl, cl.out,
              StatusResult(cl.scount, TTL(counter, <<cl.user, cl.sw>>, now), now))
       ELSE Finish(cl, cl.out, StatusFallback(now))]
  /\ UNCHANGED <<Store, Env, stamp, nextId>>

\* messageRateLimiter.checkAndRecordRequest(userId) is called directly
StartRecord(c, u) ==
  /\ MayStart(c)
  /\ LET cl == [calls[c] EXCEPT !.op = "record", !.user = u] IN
     IF ~redisUp
     THEN Recorded(c, [cl EXCEPT !.fb = TRUE], RecordFallback(now))
     ELSE /\ calls' = [calls EXCEPT ![c] =
                 [cl EXCEPT !.pc = "eval", !.kw = getKey(u, now)[2]]]
          /\ UNCHANGED <<stamp, nextId>>
  /\ UNCHANGED <<Store, Env>>

\* getRateLimitStatus(userId) is called
StartStatus(c, u) ==
  /\ MayStart(c)
  /\ calls' = [calls EXCEPT ![c] =
       LET cl == [@ EXCEPT !.op = "status", !.user = u] IN
       IF u = NoUser THEN Finish(cl, "ValidationError", NoInfo)
       ELSE EnterStatus(cl, "status", now, redisUp)]
  /\ UNCHANGED <<Store, Env, stamp, nextId>>

\* resetUserLimit(userId) is called
StartReset(c, u) ==
  /\ MayStart(c)
  /\ calls' = [calls EXCEPT ![c] =
       LET cl == [@ EXCEPT !.op = "reset", !.user = u] IN
       IF ~redisUp THEN Finish(cl, "reset", NoInfo)
       ELSE [cl EXCEPT !.pc = "del", !.kw = getKey(u, now)[2]]]
  /\ UNCHANGED <<Store, Env, stamp, nextId>>

\* Faulty variant of ResetDel: the key is not deleted.
ResetDelKeep(c) ==
  /\ calls[c].pc = "del"
  /\ counter' = counter
  /\ calls' = [calls EXCEPT ![c] = Finish(@, "reset", NoInfo)]
  /\ UNCHANGED <<msgs, postCount, lastPostAt, Env, stamp, nextId>>

\* resetUserLimit: redis.del(key) answers, or throws (logged)
ResetDel(c) ==
  /\ calls[c].pc = "del"
  /\ counter' = IF redisUp
                THEN [counter EXCEPT ![<<calls[c].user, calls[c].kw>>] = NoKey]
                ELSE counter
  /\ calls' = [calls EXCEPT ![c] = Finish(@, "reset", NoInfo)]
  /\ UNCHANGED <<msgs, postCount, lastPostAt, Env, stamp, nextId>>

\* deleteMessage(messageId) is called: validation, then Message.findById
StartDelete(c, m) ==
  /\ MayStart(c)
  /\ calls' = [calls EXCEPT ![c] =
       LET cl == [@ EXCEPT !.op = "delete", !.tgt = m] IN
       IF m = NULL THEN Finish(cl, "ValidationError", NoInfo)
       ELSE [cl EXCEPT !.pc = "delFind"]]
  /\ UNCHANGED <<Store, Env, stamp, nextId>>

\* deleteMessage: Message.findById answers; the document read decides which
\* of the neighbours are updated
DelFind(c) ==
  /\ calls[c].pc = "delFind"
  /\ calls' = [calls EXCEPT ![c] =
       LET cl == calls[c]
           message == msgs[cl.tgt]
       IN IF message = NoMsg THEN Finish(cl, "NotFoundError", NoInfo)
          ELSE [cl EXCEPT !.user = message.user,
                          !.tprev = message.previousMessage,
                          !.tnext = message.nextMessage,
                          !.pc = IF message.previousMessage # NULL THEN "delPrev"
                                 ELSE IF message.nextMessage # NULL THEN "delNext"
                                 ELSE "delCount"]]
  /\ UNCHANGED <<Store, Env, stamp, nextId>>

\* Faulty variant of DelPrev: the predecessor's next is always cleared.
DelPrevNull(c) ==
  /\ calls[c].pc = "delPrev"
  /\ msgs' = IF Exists(msgs, calls[c].tprev)
             THEN [msgs EXCEPT ![calls[c].tprev].nextMessage = NULL]
             ELSE msgs
  /\ calls' = [calls EXCEPT ![c].pc =
       IF calls[c].tnext # NULL THEN "delNext" ELSE "delCount"]
  /\ UNCHANGED <<counter, postCount, lastPostAt, Env, stamp, nextId>>

\* deleteMessage: findByIdAndUpdate(message.previousMessage, { nextMessage })
DelPrev(c) ==
  /\ calls[c].pc = "delPrev"
  /\ msgs' = IF Exists(msgs, calls[c].tprev)
             THEN [msgs EXCEPT ![calls[c].tprev].nextMessage = calls[c].tnext]
             ELSE msgs
  /\ calls' = [calls EXCEPT ![c].pc =
       IF calls[c].tnext # NULL THEN "delNext" ELSE "delCount"]
  /\ UNCHANGED <<counter, postCount, lastPostAt, Env, stamp, nextId>>

\* Faulty variant of DelNext: the successor's previous is always cleared.
DelNextNull(c) ==
  /\ calls[c].pc = "delNext"
  /\ msgs' = IF Exists(msgs, calls[c].tnext)
             THEN [msgs EXCEPT ![calls[c].tnext].previousMessage = NULL]
             ELSE msgs
  /\ calls' = [calls EXCEPT ![c].pc = "delCount"]
  /\ UNCHANGED <<counter, postCount, lastPostAt, Env, stamp, nextId>>

\* deleteMessage: findByIdAndUpdate(message.nextMessage, { previousMessage })
DelNext(c) ==
  /\ calls[c].pc = "delNext"
  /\ msgs' = IF Exists(msgs, calls[c].tnext)
             THEN [msgs EXCEPT ![calls[c].tnext].previousMessage = calls[c].tprev]
             ELSE msgs
  /\ calls' = [calls EXCEPT ![c].pc = "delCount"]
  /\ UNCHANGED <<counter, postCount, lastPostAt, Env, stamp, nextId>>

\* Faulty variant of DelCount: the update clears lastPostAt as well.
DelCountClear(c) ==
  /\ calls[c].pc = "delCount"
  /\ postCount' = IF calls[c].user \in Users
                  THEN [postCount EXCEPT ![calls[c].user] = @ - 1]
                  ELSE postCount
  /\ lastPostAt' = IF calls[c].user \in Users
                   THEN [lastPostAt EXCEPT ![calls[c].user] = NULL]
                   ELSE lastPostAt
  /\ calls' = [calls EXCEPT ![c].pc = "delRemove"]
  /\ UNCHANGED <<counter, msgs, Env, stamp, nextId>>

\* Faulty variant of DelCount: the delete gives the quota unit back.
DelCountRefund(c) ==
  /\ calls[c].pc = "delCount"
  /\ postCount' = IF calls[c].user \in Users
                  THEN [postCount EXCEPT ![calls[c].user] = @ - 1]
                  ELSE postCount
  /\ counter' = IF calls[c].user \in Users
                THEN [counter EXCEPT ![getKey(calls[c].user, now)].count = Max(0, @ - 1)]
                ELSE counter
  /\ calls' = [calls EXCEPT ![c].pc = "delRemove"]
  /\ UNCHANGED <<msgs, lastPostAt, Env, stamp, nextId>>

\* deleteMessage: User.findByIdAndUpdate(message.user, { $inc: { postCount: -1 } })
DelCount(c) ==
  /\ calls[c].pc = "delCount"
  /\ postCount' = IF calls[c].user \in Users
                  THEN [postCount EXCEPT ![calls[c].user] = @ - 1]
                  ELSE postCount
  /\ calls' = [calls EXCEPT ![c].pc = "delRemove"]
  /\ UNCHANGED <<counter, msgs, lastPostAt, Env, stamp, nextId>>

\* Faulty variant of DelRemove: the references to the record are cleared in
\* the step that removes it.
DelRemoveUnlink(c) ==
  /\ calls[c].pc = "delRemove"
  /\ msgs' = [m \in MsgIds |->
       IF m = calls[c].tgt \/ msgs[m] = NoMsg THEN NoMsg
       ELSE [msgs[m] EXCEPT
               !.previousMessage = IF @ = calls[c].tgt THEN NULL ELSE @,
               !.nextMessage = IF @ = calls[c].tgt THEN NULL ELSE @]]
  /\ calls' = [calls EXCEPT ![c] = Finish(@, "deleted", NoInfo)]
  /\ UNCHANGED <<counter, postCount, lastPostAt, Env, stamp, nextId>>

\* deleteMessage: Message.findByIdAndDelete(messageId); the call returns true
DelRemove(c) ==
  /\ calls[c].pc = "delRemove"
  /\ msgs' = [msgs EXCEPT ![calls[c].tgt] = NoMsg]
  /\ calls' = [calls EXCEPT ![c] = Finish(@, "deleted", NoInfo)]
  /\ UNCHANGED <<counter, postCount, lastPostAt, Env, stamp, nextId>>

\* deleteMessage: one of its MongoDB calls rejects; the catch block logs and
\* throws Error('Failed to delete message'); what was written stays written
DelFails(c) ==
  /\ calls[c].pc \in {"delFind", "delPrev", "delNext", "delCount", "delRemove"}
  /\ calls' = [calls EXCEPT ![c] = Finish(@, "InternalError", NoInfo)]
  /\ UNCHANGED <<Store, Env, stamp, nextId>>

\* Time passes, up to `limit'; Redis drops the keys whose time to live is over
Tick(limit) ==
  /\ now + TickMs <= limit
  /\ now' = now + TickMs
  /\ counter' = [k \in Keys |->
       IF counter[k].count # 0 /\ counter[k].expireAt <= now + TickMs
       THEN NoKey ELSE counter[k]]
  /\ UNCHANGED <<redisUp, ncalls, prior, msgs, postCount, lastPostAt, calls,
                 stamp, nextId>>

\* The Redis server becomes unreachable, or reachable again
RedisFails ==
  /\ redisUp
  /\ redisUp' = FALSE
  /\ UNCHANGED <<now, ncalls, prior, Store, calls, stamp, nextId>>

RedisRecovers ==
  /\ ~redisUp
  /\ redisUp' = TRUE
  /\ UNCHANGED <<now, ncalls, prior, Store, calls, stamp, nextId>>

(* -------------------------- specifications ---------------------------- *)
InitStore(p) ==
  /\ now = 0
  /\ stamp = 0
  /\ redisUp = TRUE
  /\ prior = p
  /\ counter = [k \in Keys |->
       IF k = <<"u1", 0>> /\ p > 0
       THEN [count |-> p, expireAt |-> ttlSeconds * 1000] ELSE NoKey]
  /\ msgs = [m \in MsgIds |-> NoMsg]
  /\ nextId = 1
  /\ postCount = [u \in Users |-> 0]
  /\ lastPostAt = [u \in Users |-> NULL]
  /\ calls = [c \in CallIds |-> NewCall]

PostStep(c) ==
  \/ FindUser(c) \/ Eval(c)
  \/ PreSaveUser(c) \/ PreSaveLatest(c) \/ PreSaveLink(c) \/ Insert(c) \/ PostSave(c)
  \/ Populate(c) \/ StatusGet(c) \/ StatusTtl(c)

\* One client that posts for one user, one call after the other, while time
\* passes through the windows
Quiet == \A d \in CallIds : ~Active(d)

InitSeq ==
  /\ InitStore(0)
  /\ ncalls = SeqCalls

NextSeq ==
  \/ \E c \in CallIds : (Quiet /\ StartPost(c, "u1", GoodBody)) \/ PostStep(c)
  \/ Tick(MaxTime)

SpecSeq == InitSeq /\ [][NextSeq]_vars

\* The same client while Redis fails and recovers, from any count of the
\* window's counter
InitFault ==
  /\ \E p \in 0..maxRequests : InitStore(p)
  /\ ncalls = MaxCalls

NextFault ==
  \/ \E c \in CallIds : (Quiet /\ StartPost(c, "u1", GoodBody)) \/ PostStep(c)
  \/ Tick(windowMs - 1)
  \/ RedisFails
  \/ RedisRecovers

SpecFault == InitFault /\ [][NextFault]_vars

\* The same client posting with any input: missing or unknown user, missing,
\* blank or long body
InitInput ==
  /\ \E p \in 0..maxRequests : InitStore(p)
  /\ ncalls = MaxCalls - 1

NextInput ==
  \/ \E c \in CallIds :
       \/ \E u \in {"u1", GhostUser, NoUser}, b \in Bodies :
            Quiet /\ StartPost(c, u, b)
       \/ PostStep(c)
  \/ Tick(windowMs - 1)

SpecInput == InitInput /\ [][NextInput]_vars

\* Concurrent callers of the rate limiter itself, Redis reachable, no reset
InitRL ==
  /\ \E p \in 0..maxRequests : InitStore(p)
  /\ ncalls \in 1..MaxCalls

RLStep(c) == Eval(c) \/ StatusGet(c) \/ StatusTtl(c)

NextRL ==
  \/ \E c \in CallIds :
       \/ StartRecord(c, "u1")
       \/ StartStatus(c, "u1")
       \/ RLStep(c)
  \/ Tick(MaxTime)

SpecRL == InitRL /\ [][NextRL]_vars

\* Concurrent posts of one user with valid bodies, Redis and MongoDB reachable,
\* no reset, starting from any count of the first window's counter
InitConc ==
  /\ \E p \in 0..maxRequests : InitStore(p)
  /\ ncalls \in 1..MaxCalls

NextConc ==
  \/ \E c \in CallIds : StartPost(c, "u1", GoodBody) \/ PostStep(c)
  \/ Tick(windowMs - 1)

SpecConc == InitConc /\ [][NextConc]_vars

\* One client that posts and deletes for one user, one call after the other
DelStep(c) ==
  \/ DelFind(c) \/ DelPrev(c) \/ DelNext(c) \/ DelCount(c) \/ DelRemove(c)

InitDel ==
  /\ InitStore(0)
  /\ ncalls = SeqCalls

NextDel ==
  \/ \E c \in CallIds :
       \/ Quiet /\ StartPost(c, "u1", GoodBody)
       \/ \E m \in MsgIds \cup {NULL} : Quiet /\ StartDelete(c, m)
       \/ PostStep(c)
       \/ DelStep(c)
  \/ Tick(MaxTime)

SpecDel == InitDel /\ [][NextDel]_vars

\* Callers of the rate limiter with resets: checkAndRecordRequest and status
\* calls run concurrently; resetUserLimit is called when no call is running
InitReset ==
  /\ \E p \in 0..maxRequests : InitStore(p)
  /\ ncalls = MaxCalls

ResetStep(c) == Eval(c) \/ StatusGet(c) \/ StatusTtl(c) \/ ResetDel(c)

NextReset ==
  \/ \E c \in CallIds :
       \/ StartRecord(c, "u1")
       \/ StartStatus(c, "u1")
       \/ Quiet /\ StartReset(c, "u1")
       \/ ResetStep(c)
  \/ Tick(MaxTime)

SpecReset == InitReset /\ [][NextReset]_vars

\* Concurrent posts and deletes of one user inside one window
InitMix ==
  /\ InitStore(0)
  /\ ncalls = MaxCalls

NextMix ==
  \/ \E c \in CallIds :
       \/ StartPost(c, "u1", GoodBody)
       \/ \E m \in MsgIds : StartDelete(c, m)
       \/ PostStep(c)
       \/ DelStep(c)
  \/ Tick(windowMs - 1)

SpecMix == InitMix /\ [][NextMix]_vars

\* Concurrent callers of the rate limiter, resets included at any moment
InitRace ==
  /\ \E p \in 0..maxRequests : InitStore(p)
  /\ ncalls \in 1..MaxCalls

NextRace ==
  \/ \E c \in CallIds :
       \/ StartRecord(c, "u1")
       \/ StartReset(c, "u1")
       \/ Eval(c)
       \/ ResetDel(c)
  \/ Tick(MaxTime)

SpecRace == InitRace /\ [][NextRace]_vars

\* One client posting for one user while MongoDB may fail during save()
InitSave ==
  /\ \E p \in 0..maxRequests : InitStore(p)
  /\ ncalls = SeqCalls

NextSave ==
  \/ \E c \in CallIds :
       \/ Quiet /\ StartPost(c, "u1", GoodBody)
       \/ PostStep(c)
       \/ SaveFails(c)
  \/ Tick(windowMs - 1)

SpecSave == InitSave /\ [][NextSave]_vars

\* A user who posted one message in an earlier window, whose counter has
\* expired since
OneMessage ==
  [m \in MsgIds |->
     IF m = 1
     THEN [user |-> "u1", createdAt |-> 1, previousMessage |-> NULL,
           nextMessage |-> NULL, body |-> Trim(GoodBody)]
     ELSE NoMsg]

\* Concurrent posts of one user whose chain is empty or holds one message
InitTail ==
  /\ now = 0
  /\ redisUp = TRUE
  /\ prior = 0
  /\ counter = [k \in Keys |-> NoKey]
  /\ calls = [c \in CallIds |-> NewCall]
  /\ ncalls = MaxCalls - 1
  /\ \/ /\ msgs = [m \in MsgIds |-> NoMsg]
        /\ stamp = 0 /\ nextId = 1
        /\ postCount = [u \in Users |-> 0]
        /\ lastPostAt = [u \in Users |-> NULL]
     \/ /\ msgs = OneMessage
        /\ stamp = 1 /\ nextId = 2
        /\ postCount = [u \in Users |-> IF u = "u1" THEN 1 ELSE 0]
        /\ lastPostAt = [u \in Users |-> IF u = "u1" THEN 1 ELSE NULL]

NextTail ==
  \/ \E c \in CallIds : StartPost(c, "u1", GoodBody) \/ PostStep(c)
  \/ Tick(windowMs - 1)

SpecTail == InitTail /\ [][NextTail]_vars

\* One client posting for one user while MongoDB may fail during save() or
\* during the update of the user's statistics after it
InitStats ==
  /\ InitStore(0)
  /\ ncalls = SeqCalls

NextStats ==
  \/ \E c \in CallIds :
       \/ Quiet /\ StartPost(c, "u1", GoodBody)
       \/ PostStep(c)
       \/ SaveFails(c)
       \/ PostSaveFails(c)
  \/ Tick(windowMs - 1)

SpecStats == InitStats /\ [][NextStats]_vars

\* no call on the data of user u is running
Idle(u) ==
  \A d \in CallIds :
    Active(d) =>
      /\ calls[d].user # u
      /\ calls[d].pc = "delFind" => msgs[calls[d].tgt].user # u

\* Two users, each making one call after the other (posts, status reads,
\* resets, deletes of their own messages), the calls of the one user running
\* concurrently with those of the other
InitUsers ==
  /\ InitStore(0)
  /\ ncalls = MaxCalls

NextUsers ==
  \/ \E c \in CallIds :
       \/ \E u \in Users :
            /\ Idle(u)
            /\ \/ StartPost(c, u, GoodBody)
               \/ StartStatus(c, u)
               \/ StartReset(c, u)
               \/ \E m \in MessagesOf(msgs, u) : StartDelete(c, m)
       \/ PostStep(c)
       \/ DelStep(c)
       \/ ResetDel(c)
  \/ Tick(windowMs - 1)

SpecUsers == InitUsers /\ [][NextUsers]_vars

\* Concurrent postMessage calls with any kind of input while MongoDB may fail
\* during save(); every store round trip of a running call eventually returns
\* or fails
InitLive ==
  /\ \E p \in 0..maxRequests : InitStore(p)
  /\ ncalls = MaxCalls - 1

NextLive ==
  \/ \E c \in CallIds :
       \/ \E u \in {"u1", GhostUser, NoUser}, b \in {GoodBody, NoBody} :
            StartPost(c, u, b)
       \/ PostStep(c)
       \/ SaveFails(c)
  \/ Tick(windowMs - 1)

SpecLive ==
  /\ InitLive
  /\ [][NextLive]_vars
  /\ \A c \in CallIds : WF_vars(PostStep(c) \/ SaveFails(c))

\* One client that posts and deletes for one user, one call after the other,
\* while MongoDB may fail during a delete
InitDelFail ==
  /\ InitStore(0)
  /\ ncalls = SeqCalls

NextDelFail ==
  \/ \E c \in CallIds :
       \/ Quiet /\ StartPost(c, "u1", GoodBody)
       \/ \E m \in MsgIds : Quiet /\ StartDelete(c, m)
       \/ PostStep(c)
       \/ DelStep(c)
       \/ DelFails(c)
  \/ Tick(windowMs - 1)

SpecDelFail == InitDelFail /\ [][NextDelFail]_vars

(* ------------------------------ claims -------------------------------- *)
TheKey == <<"u1", 0>>
Started == 1..ncalls
AllDone == \A c \in Started : calls[c].pc = "done"
WithOut(kind) == {c \in Started : calls[c].pc = "done" /\ calls[c].out = kind}
Stepped(c) == calls'[c] # calls[c]

\* C1: N concurrent postMessage calls of one existing user with valid bodies,
\* in one window, from counter 0, stores reachable, no reset: once all calls
\* have finished, exactly min(N, maxRequests) returned success, the other
\* N - min(N, maxRequests) returned the RateLimited failure, and the window's
\* counter equals min(N, maxRequests).
C1_ConcurrentPosts ==
  (prior = 0 /\ AllDone) =>
    /\ Cardinality(WithOut("success")) = Min(ncalls, maxRequests)
    /\ Cardinality(WithOut("RateLimited")) = ncalls - Min(ncalls, maxRequests)
    /\ counter[TheKey].count = Min(ncalls, maxRequests)

\* all calls are done, more calls than maxRequests were made, and a call that
\* started before an admitted one was rejected (so the two overlapped)
C1_Witness ==
  /\ prior = 0 /\ AllDone /\ ncalls > maxRequests
  /\ calls[1].out = "RateLimited"
  /\ calls[ncalls].out = "success"

Records == {c \in Started : calls[c].op = "record"}
RecordsDone ==
  /\ AllDone
  /\ now < windowMs
  /\ \A c \in Records : calls[c].kw = 0
Allowed == {c \in Records : calls[c].pc = "done" /\ ~calls[c].rl.isLimited}

\* C2: with the key's counter at maxRequests - 1 and two or more concurrent
\* checkAndRecord calls on that key (inside its window), exactly one call
\* returns allowed = true and all the others allowed = false.
C2_LastSlot ==
  (prior = maxRequests - 1 /\ RecordsDone /\ Cardinality(Records) >= 2) =>
    Cardinality(Allowed) = 1

\* call 1 was still waiting for Redis when call 2 took the last slot
C2_Witness ==
  /\ prior = maxRequests - 1 /\ RecordsDone
  /\ {1, 2} \subseteq Records
  /\ calls[1].rl.isLimited
  /\ ~calls[2].rl.isLimited

\* C3, as stated: after N simultaneous checkAndRecord callers on one key whose
\* counter was priorCount, the counter is min(N, priorCount + N, maxRequests).
C3_AsStated ==
  (RecordsDone /\ Records # {}) =>
    counter[TheKey].count =
      Min(Cardinality(Records), Min(prior + Cardinality(Records), maxRequests))

\* C3, amended: after N simultaneous checkAndRecord callers on one key whose
\* counter was priorCount, the counter is min(priorCount + N, maxRequests).
C3_FinalCount ==
  (RecordsDone /\ Records # {}) =>
    counter[TheKey].count = Min(prior + Cardinality(Records), maxRequests)

\* several callers, a counter that was not zero, and more callers than slots
C3_Witness ==
  /\ RecordsDone /\ Cardinality(Records) >= 2
  /\ prior > 0 /\ prior + Cardinality(Records) > maxRequests
  /\ counter[TheKey].count = maxRequests

InStatus(c) ==
  \/ calls[c].pc \in {"crlGet", "crlTtl"}
  \/ calls[c].pc = "new" /\ calls'[c].op = "status"

\* C4: getStatus / getRateLimitStatus is read-only: no step of it changes a
\* counter's value or time to live or creates a key, and what it returns is
\* the stored count it read and remaining = max(0, maxRequests - count), so
\* reads with no writer in between return the same values.
C4_StatusReadOnly ==
  [][\A c \in CallIds :
       (InStatus(c) /\ Stepped(c)) =>
         /\ counter' = counter
         /\ calls'[c].pc = "crlTtl" =>
              calls'[c].scount = counter[<<calls[c].user, calls[c].sw>>].count
         /\ (calls[c].pc = "crlTtl" /\ calls'[c].pc = "done") =>
              /\ calls'[c].info.currentCount = calls[c].scount
              /\ calls'[c].info.remainingRequests =
                   Max(0, maxRequests - calls[c].scount)]_vars

\* two status reads returned the same non-zero count, which is still stored
C4_Witness ==
  /\ now < windowMs
  /\ counter[TheKey].count >= 1
  /\ \E c, d \in Started :
       /\ c # d
       /\ calls[c].op = "status" /\ calls[c].pc = "done"
       /\ calls[d].op = "status" /\ calls[d].pc = "done"
       /\ calls[c].info.currentCount = counter[TheKey].count
       /\ calls[d].info.currentCount = counter[TheKey].count

\* C5: a fresh user posting sequentially inside one window: the k-th post
\* (k <= maxRequests) succeeds and reports remainingRequests = maxRequests - k;
\* every further post fails with RateLimited and reports remainingRequests = 0.
C5_SequentialQuota ==
  \A c \in Started :
    (calls[c].pc = "done" /\ now < windowMs) =>
      IF c <= maxRequests
      THEN /\ calls[c].out = "success"
           /\ calls[c].info.remainingRequests = maxRequests - c
      ELSE /\ calls[c].out = "RateLimited"
           /\ calls[c].info.isLimited
           /\ calls[c].info.remainingRequests = 0

\* maxRequests posts succeeded and the next one was refused, in one window
C5_Witness ==
  /\ now < windowMs
  /\ calls[maxRequests].pc = "done" /\ calls[maxRequests].out = "success"
  /\ calls[maxRequests].info.remainingRequests = 0
  /\ calls[maxRequests + 1].pc = "done"
  /\ calls[maxRequests + 1].out = "RateLimited"

\* the inputs postMessage must refuse: no user id, no body or an empty one,
\* a body of whitespace only, a body of more than 1000 characters
InvalidInput(u, b) ==
  \/ u = NoUser
  \/ b = NoBody
  \/ BodyLen(b) - b.lead - b.trail = 0
  \/ BodyLen(b) > MaxBodyLen

\* C6: a postMessage call with invalid input ends at once with
\* ValidationError, and the counters, the messages (every chain), postCount
\* and lastPostAt are exactly as before the call.
C6_ValidationFirst ==
  [][\A c \in CallIds :
       ( /\ calls[c].pc = "new" /\ calls'[c].op = "post"
         /\ InvalidInput(calls'[c].user, calls'[c].body) ) =>
         /\ calls'[c].pc = "done"
         /\ calls'[c].out = "ValidationError"
         /\ counter' = counter /\ msgs' = msgs
         /\ postCount' = postCount /\ lastPostAt' = lastPostAt]_vars

\* a 1001-character body was refused after a message had been posted
C6_Witness ==
  \E c \in Started :
    /\ calls[c].pc = "done" /\ calls[c].out = "ValidationError"
    /\ calls[c].user = "u1"
    /\ calls[c].body = Body(0, MaxBodyLen + 1, 0)
    /\ postCount["u1"] = 1 /\ counter[TheKey].count >= 1

\* C7: a postMessage call for a user id that is not in the RecordStore ends
\* with NotFoundError before the rate limiter is called: that id never gets a
\* counter or a message, and the call's lookup step changes no store.
C7_UnknownUser ==
  /\ [](/\ \A k \in Keys : k[1] \notin Users => counter[k] = NoKey
        /\ \A m \in MsgIds : msgs[m] # NoMsg => msgs[m].user \in Users
        /\ \A c \in CallIds :
             (calls[c].op = "post" /\ calls[c].user \notin Users) =>
               /\ calls[c].evals = 0 /\ calls[c].rl = NoInfo /\ calls[c].mid = NULL
               /\ calls[c].pc = "done" =>
                    calls[c].out \in {"NotFoundError", "ValidationError"})
  /\ [][\A c \in CallIds :
          (calls[c].pc = "findUser" /\ calls[c].user \notin Users /\ Stepped(c)) =>
            /\ calls'[c].pc = "done" /\ calls'[c].out = "NotFoundError"
            /\ counter' = counter /\ msgs' = msgs
            /\ postCount' = postCount /\ lastPostAt' = lastPostAt]_vars

\* a post with a valid body for an unknown user ended with NotFoundError
C7_Witness ==
  \E c \in Started :
    /\ calls[c].pc = "done" /\ calls[c].out = "NotFoundError"
    /\ calls[c].user = GhostUser /\ calls[c].body = GoodBody

\* C8: a postMessage call the rate limiter rejects never reaches the insert:
\* it builds and creates no message, and none of its steps changes a message,
\* a previous/next reference, postCount or lastPostAt.
C8_RejectedNeverInserts ==
  /\ [](\A c \in CallIds :
          calls[c].rl.isLimited =>
            /\ calls[c].mid = NULL
            /\ calls[c].pc \in {"crlGet", "crlTtl", "done"}
            /\ calls[c].out = "RateLimited")
  /\ [](Cardinality({m \in MsgIds : msgs[m] # NoMsg}) <=
          Cardinality({c \in CallIds : calls[c].rl # NoInfo /\ ~calls[c].rl.isLimited}))
  /\ [][\A c \in CallIds :
          (calls'[c].rl.isLimited /\ Stepped(c)) =>
            msgs' = msgs /\ postCount' = postCount /\ lastPostAt' = lastPostAt]_vars

\* a call was rejected while the others were admitted and inserted
C8_Witness ==
  /\ AllDone
  /\ WithOut("RateLimited") # {}
  /\ Cardinality(WithOut("success")) = maxRequests
  /\ postCount["u1"] = maxRequests

\* C9: when Redis is unreachable or its call fails, checkAndRecord fails open:
\* it returns allowed with remaining = maxRequests - 1 and resetTime = now +
\* windowMs after at most one eval and without touching a counter, and the
\* post goes on to build and save its message, whatever the window's count;
\* such a call never ends RateLimited.
C9_FailOpen ==
  /\ [][\A c \in CallIds :
          ( /\ calls[c].pc \in {"findUser", "eval"} /\ Stepped(c)
            /\ calls[c].user \in Users /\ ~redisUp ) =>
            /\ ~calls'[c].rl.isLimited
            /\ calls'[c].rl.remainingRequests = maxRequests - 1
            /\ calls'[c].rl.resetTime = now + windowMs
            /\ calls'[c].evals <= 1
            /\ calls'[c].evals = IF calls[c].pc = "eval" THEN 1 ELSE 0
            /\ counter' = counter
            /\ calls'[c].pc = "preUser" /\ calls'[c].mid # NULL]_vars
  /\ [](\A c \in CallIds :
          calls[c].fb =>
            /\ calls[c].out # "RateLimited"
            /\ calls[c].pc = "done" =>
                 calls[c].out = "success" /\ msgs[calls[c].mid] # NoMsg)

\* with the window's counter at maxRequests, a post whose eval failed was
\* admitted and its message inserted
C9_Witness ==
  \E c \in Started :
    /\ calls[c].pc = "done" /\ calls[c].fb /\ calls[c].evals = 1
    /\ calls[c].out = "success"
    /\ msgs[calls[c].mid] # NoMsg
    /\ prior = maxRequests
    /\ counter[TheKey].count = maxRequests

RECURSIVE Ascending(_)
Ascending(S) ==
  IF S = {} THEN <<>>
  ELSE LET x == CHOOSE y \in S : \A z \in S : y <= z
       IN <<x>> \o Ascending(S \ {x})

Reverse(q) == [i \in 1..Len(q) |-> q[Len(q) + 1 - i]]

RECURSIVE WalkNext(_, _, _)
WalkNext(ms, m, fuel) ==
  IF m = NULL \/ fuel = 0 THEN <<>>
  ELSE IF ms[m] = NoMsg THEN <<m>>
  ELSE <<m>> \o WalkNext(ms, ms[m].nextMessage, fuel - 1)

RECURSIVE WalkPrevious(_, _, _)
WalkPrevious(ms, m, fuel) ==
  IF m = NULL \/ fuel = 0 THEN <<>>
  ELSE IF ms[m] = NoMsg THEN <<m>>
  ELSE <<m>> \o WalkPrevious(ms, ms[m].previousMessage, fuel - 1)

Heads(u) == {m \in MessagesOf(msgs, u) : msgs[m].previousMessage = NULL}
Tails(u) == {m \in MessagesOf(msgs, u) : msgs[m].nextMessage = NULL}
Fuel == Cardinality(MsgIds) + 1

\* C10: after any sequence of sequential inserts into one user's chain,
\* following next from the head visits every message of the user exactly
\* once in creation order, and following previous from the tail visits them
\* in exactly the reverse order.
C10_ChainOrder ==
  \A u \in Users :
    (Quiet /\ MessagesOf(msgs, u) # {}) =>
      /\ Cardinality(Heads(u)) = 1
      /\ Cardinality(Tails(u)) = 1
      /\ \A h \in Heads(u) :
           WalkNext(msgs, h, Fuel) = Ascending(MessagesOf(msgs, u))
      /\ \A t \in Tails(u) :
           WalkPrevious(msgs, t, Fuel) = Reverse(Ascending(MessagesOf(msgs, u)))
      /\ \A m, o \in MessagesOf(msgs, u) :
           m < o => msgs[m].createdAt < msgs[o].createdAt

\* a chain of at least three messages, so that one has both neighbours
C10_Witness ==
  /\ Quiet
  /\ Cardinality(MessagesOf(msgs, "u1")) >= 3
  /\ msgs[2].previousMessage = 1 /\ msgs[2].nextMessage = 3

\* the user's messages form one chain in creation order
OneChain(u) ==
  MessagesOf(msgs, u) # {} =>
    /\ Cardinality(Heads(u)) = 1
    /\ Cardinality(Tails(u)) = 1
    /\ \A h \in Heads(u) :
         WalkNext(msgs, h, Fuel) = Ascending(MessagesOf(msgs, u))
    /\ \A t \in Tails(u) :
         WalkPrevious(msgs, t, Fuel) = Reverse(Ascending(MessagesOf(msgs, u)))

\* C11: deleteMessage run alone on a consistent chain relinks by position:
\* when it returns, the deleted record is gone, the former predecessor's
\* next is the former successor (null if there was none), the former
\* successor's previous is the former predecessor (null if there was none),
\* no other record changed, and the user's remaining messages are one chain
\* in creation order (no message at all after deleting the only one).
C11_DeleteRelinks ==
  /\ [][\A c \in CallIds :
          (calls[c].pc = "delRemove" /\ Stepped(c)) =>
            LET m == calls[c].tgt
                p == msgs[m].previousMessage
                n == msgs[m].nextMessage
            IN /\ calls'[c].pc = "done" /\ calls'[c].out = "deleted"
               /\ msgs'[m] = NoMsg
               /\ p # NULL => msgs'[p] # NoMsg /\ msgs'[p].nextMessage = n
               /\ n # NULL => msgs'[n] # NoMsg /\ msgs'[n].previousMessage = p
               /\ \A o \in MsgIds : msgs'[o] # NoMsg =>
                    /\ msgs'[o].previousMessage # m
                    /\ msgs'[o].nextMessage # m
               /\ (p = NULL /\ n = NULL) => MessagesOf(msgs', "u1") = {}]_vars
  /\ [](Quiet => OneChain("u1"))

\* the middle one of three messages was deleted and its neighbours are linked
C11_Witness ==
  /\ Quiet
  /\ msgs[1] # NoMsg /\ msgs[2] = NoMsg /\ msgs[3] # NoMsg
  /\ msgs[1].nextMessage = 3 /\ msgs[3].previousMessage = 1
  /\ msgs[1].previousMessage = NULL /\ msgs[3].nextMessage = NULL
  /\ \E c \in Started : calls[c].op = "delete" /\ calls[c].out = "deleted"

\* the resets that completed on the key the status call c reads, with no
\* checkAndRecordRequest called after them
ResetsBefore(c) ==
  {d \in CallIds :
     /\ d < c
     /\ calls[d].op = "reset" /\ calls[d].pc = "done"
     /\ calls[d].kw = calls[c].sw
     /\ \A e \in CallIds : e > d => calls[e].op \in {"status", "none"}}

\* C12: after resetUserLimit completed, with no checkAndRecordRequest for the
\* user after it, a status call whose redis.get on the key that was reset is
\* answered after the reset reads the count 0, and a status call that read 0
\* returns currentCount = 0 and remainingRequests = maxRequests, whatever the
\* counter was before the reset.
C12_ResetThenStatus ==
  [][\A c \in CallIds :
       (calls[c].op = "status" /\ Stepped(c)) =>
         /\ (calls[c].pc = "crlGet" /\ ResetsBefore(c) # {}) =>
              calls'[c].pc = "crlTtl" /\ calls'[c].scount = 0
         /\ (calls[c].pc = "crlTtl" /\ calls[c].scount = 0) =>
              /\ calls'[c].pc = "done"
              /\ calls'[c].info.currentCount = 0
              /\ calls'[c].info.remainingRequests = maxRequests
              /\ ~calls'[c].info.isLimited]_vars

\* the counter stood at maxRequests, was reset, and the status read 0
C12_Witness ==
  \E d, c \in Started :
    /\ d < c
    /\ calls[d].op = "reset" /\ calls[d].pc = "done"
    /\ calls[c].op = "status" /\ calls[c].pc = "done"
    /\ calls[c].info.currentCount = 0
    /\ calls[c].info.remainingRequests = maxRequests
    /\ \A e \in Started : e > d => calls[e].op = "status"
    /\ \E e \in Started : e < d /\ calls[e].op = "record" /\ calls[e].rl.isLimited
    /\ now < windowMs

\* the calls the rate limiter admitted on the key of window w
Admitted(u, w) ==
  {c \in CallIds :
     /\ calls[c].user = u /\ calls[c].kw = w
     /\ calls[c].rl # NoInfo /\ ~calls[c].rl.isLimited}

ThisWindow == now \div windowMs

\* C13, as stated: at most maxRequests messages of one user are accepted in
\* any period of length windowMs, wherever it starts. A key lives for
\* ttlSeconds = windowMs / 1000 seconds from its first increment, so the
\* keys of a user that exist at one instant were all created, and all their
\* increments made, within the last windowMs: their counts together are
\* admissions inside one period of that length.
C13_AsStated ==
  \A u \in Users :
    counter[<<u, 0>>].count + counter[<<u, 1>>].count <= maxRequests

\* C13, amended: at most maxRequests messages of one user are accepted inside
\* one fixed window [k * windowMs, (k + 1) * windowMs): while the clock is in a
\* window, at most maxRequests calls were admitted on that window's key, and
\* that many messages at most were stored by them.
C13_PerFixedWindow ==
  \A u \in Users :
    /\ Cardinality(Admitted(u, ThisWindow)) <= maxRequests
    /\ counter[<<u, ThisWindow>>].count <= maxRequests
    /\ Cardinality({c \in Admitted(u, ThisWindow) : Exists(msgs, calls[c].mid)})
         <= maxRequests

\* maxRequests messages accepted at the end of one window and maxRequests
\* more at the start of the next: 2 * maxRequests within less than windowMs
C13_Witness ==
  /\ Quiet
  /\ now = windowMs
  /\ counter[<<"u1", 0>>].count = maxRequests
  /\ counter[<<"u1", 1>>].count = maxRequests
  /\ Cardinality(MessagesOf(msgs, "u1")) = 2 * maxRequests
  /\ Cardinality(Admitted("u1", 0)) = maxRequests
  /\ Cardinality(Admitted("u1", 1)) = maxRequests

\* no checkAndRecordRequest was evaluated yet on the key call c is about to use
FirstOnKey(c) ==
  \A d \in CallIds \ {c} :
    (calls[d].user = calls[c].user /\ calls[d].kw = calls[c].kw) => calls[d].evals = 0

\* C14: counters are per fixed window. The key a call uses is that of the
\* window the clock is in; the first checkAndRecordRequest on a window's key
\* finds no counter and is admitted with currentCount = 1, whatever the
\* count of the previous window's key, which it leaves alone; and while the
\* clock is in a window no more than maxRequests calls were admitted on that
\* window's key. (2 * maxRequests posts accepted across one boundary is the
\* state C14_Witness.)
C14_FreshWindow ==
  /\ [][\A c \in CallIds :
          /\ (calls[c].pc = "findUser" /\ calls'[c].pc = "eval") =>
               calls'[c].kw = ThisWindow
          /\ (calls[c].pc = "eval" /\ Stepped(c) /\ FirstOnKey(c)) =>
               LET k == <<calls[c].user, calls[c].kw>> IN
               /\ counter[k] = NoKey
               /\ counter'[k].count = 1
               /\ \A o \in Keys \ {k} : counter'[o] = counter[o]
               /\ ~calls'[c].rl.isLimited
               /\ calls'[c].rl.currentCount = 1
               /\ calls'[c].rl.remainingRequests = maxRequests - 1]_vars
  /\ [](\A u \in Users :
          /\ Cardinality(Admitted(u, ThisWindow)) <= maxRequests
          /\ \A w \in Windows : counter[<<u, w>>].count <= maxRequests)

\* the key of window 0 still holds maxRequests when the first post of window 1
\* was admitted with currentCount = 1, and 2 * maxRequests posts were accepted
\* in the end
C14_Witness ==
  /\ Quiet
  /\ counter[<<"u1", 0>>].count = maxRequests
  /\ \E c \in Admitted("u1", 1) : calls[c].rl.currentCount = 1
  /\ postCount["u1"] = 2 * maxRequests
  /\ \A c \in Started : calls[c].out = "success"

\* C15, as stated: every postMessage response that reports the rate-limit
\* failure carries rateLimitInfo with isLimited = true and remainingRequests
\* = 0, whatever happens between the check and the response.
C15_AsStated ==
  \A c \in CallIds :
    (calls[c].pc = "done" /\ calls[c].out = "RateLimited") =>
      /\ calls[c].info.isLimited
      /\ calls[c].info.remainingRequests = 0

\* C16, as stated: at every quiescent point (no postMessage or deleteMessage
\* in progress), after any sequence of possibly concurrent posts and deletes
\* of a user, the user's postCount equals the number of the user's messages.
C16_AsStated ==
  Quiet => \A u \in Users : postCount[u] = Cardinality(MessagesOf(msgs, u))

\* the results checkAndRecordRequest and checkRateLimit have returned so far
RateResults ==
  {calls[c].rl : c \in {d \in CallIds : calls[d].rl # NoInfo}}
    \cup {calls[c].info : c \in {d \in CallIds : calls[d].info # NoInfo}}

\* C17: every result of checkAndRecordRequest and of checkRateLimit has
\* remainingRequests = max(0, maxRequests - currentCount): it is never
\* negative, and when currentCount <= maxRequests the two add up to
\* maxRequests.
C17_Remaining ==
  \A r \in RateResults :
    /\ r.remainingRequests = Max(0, maxRequests - r.currentCount)
    /\ r.remainingRequests >= 0
    /\ r.currentCount <= maxRequests =>
         r.currentCount + r.remainingRequests = maxRequests

\* a rejected check at currentCount = maxRequests, a status with a count in
\* between, and a fallback result have all been returned
C17_Witness ==
  /\ \E r \in RateResults :
       r.isLimited /\ r.currentCount = maxRequests /\ r.remainingRequests = 0
  /\ \E c \in Started :
       /\ calls[c].out = "success" /\ calls[c].pc = "done"
       /\ calls[c].info.currentCount >= 1
       /\ calls[c].info.remainingRequests >= 1
  /\ \E c \in Started : calls[c].fb /\ calls[c].rl.currentCount = 1

\* a postMessage call starts in this step with a user id
PostStarts(c) ==
  calls[c].pc = "new" /\ calls'[c].op = "post" /\ calls'[c].user # NoUser

\* the call that starts in this step passed validation
Passed(c) == calls'[c].pc = "findUser"

\* C18, as stated: validation passes exactly when the length of the body
\* after trimming is in [1, 1000].
C18_AsStated ==
  [][\A c \in CallIds :
       PostStarts(c) =>
         (Passed(c) <=>
            /\ calls'[c].body # NoBody
            /\ BodyLen(Trim(calls'[c].body)) >= 1
            /\ BodyLen(Trim(calls'[c].body)) <= MaxBodyLen)]_vars

\* C18, amended: validation passes exactly when the body has at least one
\* character after trimming and at most 1000 characters before trimming;
\* otherwise the call ends with ValidationError.
C18_ValidateRawLength ==
  [][\A c \in CallIds :
       PostStarts(c) =>
         /\ Passed(c) <=>
              /\ calls'[c].body # NoBody
              /\ BodyLen(Trim(calls'[c].body)) >= 1
              /\ BodyLen(calls'[c].body) <= MaxBodyLen
         /\ ~Passed(c) =>
              calls'[c].pc = "done" /\ calls'[c].out = "ValidationError"]_vars

\* a body of 1001 characters, 1000 after trimming, was refused, and a body
\* of exactly 1000 characters was posted
C18_Witness ==
  /\ \E c \in Started :
       /\ calls[c].pc = "done" /\ calls[c].out = "ValidationError"
       /\ calls[c].user = "u1" /\ calls[c].body = Body(1, MaxBodyLen, 0)
  /\ \E c \in Started :
       /\ calls[c].pc = "done" /\ calls[c].out = "success"
       /\ calls[c].body = Body(0, MaxBodyLen, 0)

\* C19: with Redis reachable, under any number of concurrent
\* checkAndRecordRequest and resetUserLimit calls, the counter of every
\* (user, window) key is at most maxRequests and checkAndRecordRequest never
\* returns a currentCount above maxRequests.
C19_CounterBound ==
  /\ \A k \in Keys : counter[k].count <= maxRequests
  /\ \A c \in CallIds :
       calls[c].rl # NoInfo => calls[c].rl.currentCount <= maxRequests

\* the counter was full, was reset while another call was waiting, and is
\* full again: more than maxRequests calls were admitted on the one key
C19_Witness ==
  /\ Quiet
  /\ now < windowMs
  /\ counter[TheKey].count = maxRequests
  /\ \E d \in Started : calls[d].op = "reset" /\ calls[d].pc = "done"
  /\ prior + Cardinality(Admitted("u1", 0)) > maxRequests

\* C20: the counter is incremented by checkAndRecordRequest, before the
\* message is built and saved, and never decremented afterwards: the step in
\* which save() fails leaves the counters as they are, so the window's count
\* is the prior count plus every admitted call, failed posts included.
C20_NoRollback ==
  /\ [][\A c \in CallIds :
          /\ (calls[c].pc = "eval" /\ Stepped(c) /\ ~calls'[c].rl.isLimited) =>
               /\ counter'[<<calls[c].user, calls[c].kw>>].count =
                    counter[<<calls[c].user, calls[c].kw>>].count + 1
               /\ msgs' = msgs
               /\ calls[c].mid = NULL
          /\ (calls'[c].out = "InternalError" /\ Stepped(c)) => counter' = counter]_vars
  /\ [][\A k \in Keys : counter'[k].count >= counter[k].count]_vars
  /\ [](counter[TheKey].count = prior + Cardinality(Admitted("u1", 0)))

\* from an empty counter: the first post was admitted and its save failed, the
\* second was posted, the third was refused, with one message stored
C20_Witness ==
  /\ Quiet /\ prior = 0
  /\ calls[1].out = "InternalError" /\ ~calls[1].rl.isLimited
  /\ calls[1].rl.currentCount = 1
  /\ \E c \in Started : calls[c].out = "RateLimited"
  /\ Cardinality(MessagesOf(msgs, "u1")) < maxRequests
  /\ counter[TheKey].count = maxRequests

\* the messages a walk visits
Visited(walk) == {walk[i] : i \in 1..Len(walk)}

\* the messages of u whose previous (next) reference is m
PreviousRefs(u, m) == {o \in MessagesOf(msgs, u) : msgs[o].previousMessage = m}
NextRefs(u, m) == {o \in MessagesOf(msgs, u) : msgs[o].nextMessage = m}

\* C21: at every quiescent point of a client that inserts and deletes for one
\* user, one call after the other, the user's messages are exactly one chain:
\* if there is a message, exactly one has previous = null and exactly one has
\* next = null, no message is referenced by more than one previous or by more
\* than one next, every reference is to a message of the user, and the walk
\* from the head along next visits all of them.
C21_OneChain ==
  \A u \in Users :
    (Quiet /\ MessagesOf(msgs, u) # {}) =>
      /\ Cardinality(Heads(u)) = 1
      /\ Cardinality(Tails(u)) = 1
      /\ \A m \in MessagesOf(msgs, u) :
           /\ Cardinality(PreviousRefs(u, m)) <= 1
           /\ Cardinality(NextRefs(u, m)) <= 1
           /\ msgs[m].previousMessage \in MessagesOf(msgs, u) \cup {NULL}
           /\ msgs[m].nextMessage \in MessagesOf(msgs, u) \cup {NULL}
      /\ \A h \in Heads(u) :
           /\ Visited(WalkNext(msgs, h, Fuel)) = MessagesOf(msgs, u)
           /\ Len(WalkNext(msgs, h, Fuel)) = Cardinality(MessagesOf(msgs, u))

\* the head of a chain of two was deleted and a message was appended to what
\* was left: the chain is 2 -> 3
C21_Witness ==
  /\ Quiet
  /\ msgs[1] = NoMsg /\ msgs[2] # NoMsg /\ msgs[3] # NoMsg
  /\ msgs[2].previousMessage = NULL /\ msgs[2].nextMessage = 3
  /\ msgs[3].previousMessage = 2 /\ msgs[3].nextMessage = NULL
  /\ \E c \in Started : calls[c].op = "delete" /\ calls[c].out = "deleted"

\* a walk that visits no message twice
NoRevisit(walk) == Cardinality(Visited(walk)) = Len(walk)

SameTailRead(c, d) ==
  /\ c # d
  /\ calls[c].op = "post" /\ calls[c].pc = "done" /\ calls[c].out = "success"
  /\ calls[d].op = "post" /\ calls[d].pc = "done" /\ calls[d].out = "success"
  /\ calls[c].prev = calls[d].prev

\* C23: inserts of one user are not serialized. Two concurrent postMessage
\* calls can both read the same tail, or both read that there is none; once
\* both have finished the chain is broken: their two messages both have
\* previous = null (two heads) or both have the same previous, and at least one
\* of the two is reached by no next reference.
C23_InsertRace ==
  \A c, d \in CallIds :
    SameTailRead(c, d) =>
      LET x == calls[c].mid
          y == calls[d].mid
      IN /\ msgs[x] # NoMsg /\ msgs[y] # NoMsg
         /\ msgs[x].previousMessage = calls[c].prev
         /\ msgs[y].previousMessage = calls[c].prev
         /\ calls[c].prev = NULL => Cardinality(Heads("u1")) >= 2
         /\ calls[c].prev # NULL =>
              Cardinality(PreviousRefs("u1", calls[c].prev)) >= 2
         /\ NextRefs("u1", x) = {} \/ NextRefs("u1", y) = {}
         /\ ~OneChain("u1")

\* message 1 was the tail; the posts of messages 2 and 3 both read it and both
\* finished: both have previous = 1, and 1's next reaches only one of them
C23_Witness ==
  /\ Quiet
  /\ SameTailRead(1, 2)
  /\ calls[1].prev = 1
  /\ msgs[2].previousMessage = 1 /\ msgs[3].previousMessage = 1
  /\ msgs[1].nextMessage \in {2, 3}
  /\ Cardinality(Tails("u1")) = 2

\* the stored messages with a previous or next reference to a record that
\* does not exist
Dangling(ms) ==
  {o \in MsgIds :
     /\ ms[o] # NoMsg
     /\ \/ ms[o].previousMessage # NULL /\ ms[ms[o].previousMessage] = NoMsg
        \/ ms[o].nextMessage # NULL /\ ms[ms[o].nextMessage] = NoMsg}

\* the stored messages that reference m
Referring(ms, m) ==
  {o \in MsgIds :
     ms[o] # NoMsg /\ (ms[o].previousMessage = m \/ ms[o].nextMessage = m)}

\* C24: chain mutations of one user do not exclude each other. deleteMessage
\* removes its record on the strength of the neighbours it read at the start,
\* and a save writes the previous it read at the start: the removing step
\* changes no other record, so every message that references the removed
\* record at that moment (a message linked to it by a concurrent call since)
\* is left with a reference to a record that no longer exists, and the
\* inserting step stores the previous it read even if that record has been
\* removed since.
C24_NoMutualExclusion ==
  /\ [][\A c \in CallIds :
          (calls[c].pc = "delRemove" /\ Stepped(c)) =>
            /\ msgs'[calls[c].tgt] = NoMsg
            /\ \A o \in MsgIds \ {calls[c].tgt} : msgs'[o] = msgs[o]
            /\ Referring(msgs, calls[c].tgt) \ {calls[c].tgt} \subseteq Dangling(msgs')]_vars
  /\ [][\A c \in CallIds :
          (calls[c].pc = "insert" /\ Stepped(c)) =>
            /\ msgs'[calls[c].mid].previousMessage = calls[c].prev
            /\ \A o \in MsgIds \ {calls[c].mid} : msgs'[o] = msgs[o]
            /\ (calls[c].prev # NULL /\ msgs[calls[c].prev] = NoMsg) =>
                 calls[c].mid \in Dangling(msgs')]_vars

\* a deleteMessage of the tail ran together with a post: both have finished,
\* and the new message's previous is the deleted record
C24_Witness ==
  /\ Quiet
  /\ \E c, d \in Started :
       /\ calls[c].op = "delete" /\ calls[c].out = "deleted"
       /\ calls[d].op = "post" /\ calls[d].out = "success"
       /\ msgs[calls[d].mid] # NoMsg
       /\ calls[d].prev # NULL
       /\ msgs[calls[d].mid].previousMessage = calls[d].prev
       /\ msgs[calls[d].prev] = NoMsg
       /\ calls[d].mid \in Dangling(msgs)

\* the position of a step in postMessage
Rank(pc) ==
  CASE pc = "new" -> 0
    [] pc = "findUser" -> 1
    [] pc = "eval" -> 2
    [] pc = "preUser" -> 3
    [] pc = "preLatest" -> 4
    [] pc = "preLink" -> 5
    [] pc = "insert" -> 6
    [] pc = "postSave" -> 7
    [] pc = "populate" -> 8
    [] pc = "crlGet" -> 9
    [] pc = "crlTtl" -> 10
    [] pc = "done" -> 11

\* C25: within one postMessage call the steps run in the order Validate,
\* CheckUserExists, CheckRateLimit, InsertMessage: the call never goes back to
\* an earlier step, checkAndRecordRequest is called only with valid input for
\* a user that was found and at most once, and a message is built and saved
\* only after checkAndRecordRequest returned a result that is not limited.
C25_StepOrder ==
  /\ [](\A c \in CallIds :
          calls[c].op = "post" =>
            /\ calls[c].evals <= 1
            /\ (calls[c].pc = "eval" \/ calls[c].evals > 0 \/ calls[c].rl # NoInfo) =>
                 /\ Validate(calls[c].user, calls[c].body) = "ok"
                 /\ calls[c].user \in Users
            /\ calls[c].pc = "findUser" =>
                 /\ Validate(calls[c].user, calls[c].body) = "ok"
                 /\ calls[c].evals = 0 /\ calls[c].rl = NoInfo
            /\ calls[c].pc = "eval" => calls[c].evals = 0 /\ calls[c].rl = NoInfo
            /\ (calls[c].mid # NULL \/ Rank(calls[c].pc) \in 3..8) =>
                 /\ calls[c].evals = 1
                 /\ calls[c].rl # NoInfo /\ ~calls[c].rl.isLimited
            /\ (calls[c].pc = "done" /\ calls[c].out = "success") =>
                 calls[c].mid # NULL /\ msgs[calls[c].mid] # NoMsg)
  /\ [](\A m \in MsgIds :
          msgs[m] # NoMsg =>
            \E c \in CallIds :
              calls[c].mid = m /\ calls[c].evals = 1 /\ ~calls[c].rl.isLimited)
  /\ [][\A c \in CallIds :
          Stepped(c) =>
            /\ Rank(calls'[c].pc) > Rank(calls[c].pc)
            /\ calls'[c].pc = "findUser" => calls[c].pc = "new"
            /\ calls'[c].pc = "eval" => calls[c].pc = "findUser"
            /\ calls'[c].pc = "preUser" => calls[c].pc = "eval"
            /\ calls'[c].evals \in {calls[c].evals, calls[c].evals + 1}
            /\ calls'[c].evals # calls[c].evals => calls[c].pc = "eval"
            /\ calls'[c].pc = "crlGet" => calls[c].pc \in {"eval", "populate"}]_vars

\* one call went through all four steps and returned success, the next one
\* was stopped by the rate limiter after one checkAndRecordRequest and built
\* no message
C25_Witness ==
  \E c, d \in Started :
    /\ calls[c].pc = "done" /\ calls[c].out = "success"
    /\ calls[c].evals = 1 /\ msgs[calls[c].mid] # NoMsg
    /\ calls[d].pc = "done" /\ calls[d].out = "RateLimited"
    /\ calls[d].evals = 1 /\ calls[d].mid = NULL
    /\ calls[d].body = GoodBody

\* C26, as stated: on the RateLimited path the rateLimitInfo of the response
\* is the result the call's own checkAndRecordRequest returned (the same
\* currentCount, remainingRequests and resetTime), whatever happens after the
\* check.
C26_AsStated ==
  \A c \in CallIds :
    (calls[c].pc = "done" /\ calls[c].out = "RateLimited") =>
      /\ calls[c].info.currentCount = calls[c].rl.currentCount
      /\ calls[c].info.remainingRequests = calls[c].rl.remainingRequests
      /\ calls[c].info.resetTime = calls[c].rl.resetTime

\* C27: a checkAndRecordRequest whose script finds the key's counter at or
\* above maxRequests writes nothing: the count and the expiry of the key (and
\* every other key) are as before, and it returns isLimited with currentCount
\* equal to the stored count, remainingRequests 0 and a resetTime derived from
\* the key's remaining time to live.
C27_LimitedNoWrite ==
  [][\A c \in CallIds :
       ( /\ calls[c].pc = "eval" /\ Stepped(c) /\ redisUp
         /\ counter[<<calls[c].user, calls[c].kw>>].count >= maxRequests ) =>
         LET k == <<calls[c].user, calls[c].kw>> IN
         /\ counter' = counter
         /\ calls'[c].rl.isLimited
         /\ calls'[c].rl.currentCount = counter[k].count
         /\ calls'[c].rl.remainingRequests = 0
         /\ calls'[c].rl.resetTime = now + TTL(counter, k, now) * 1000]_vars

\* a call was refused one tick after the key was created: the key still holds
\* maxRequests and the expiry set by its first increment
C27_Witness ==
  /\ now = TickMs
  /\ prior = 0
  /\ counter[TheKey] = [count |-> maxRequests, expireAt |-> ttlSeconds * 1000]
  /\ \E c \in Started :
       /\ calls[c].op = "record" /\ calls[c].pc = "done"
       /\ calls[c].rl.isLimited
       /\ calls[c].rl.currentCount = maxRequests
       /\ calls[c].rl.resetTime = ttlSeconds * 1000

\* the postMessage calls whose post-save update has run
PostSaved ==
  {c \in CallIds :
     /\ calls[c].op = "post" /\ calls[c].mid # NULL
     /\ calls[c].pc \in {"populate", "crlGet", "crlTtl", "done"}}

\* C29, as stated: at every quiescent point after any sequence of posts and
\* deletes, a user's lastPostAt is the createdAt of the user's most recent
\* existing message, and null when the user has no message.
C29_AsStated ==
  \A u \in Users :
    Quiet =>
      IF MessagesOf(msgs, u) = {}
      THEN lastPostAt[u] = NULL
      ELSE \A m \in LatestOf(msgs, u) : lastPostAt[u] = msgs[m].createdAt

\* C29, amended: lastPostAt is the clock reading of the latest post-save
\* update. It is null exactly as long as no post of the user was saved; it is
\* never earlier than the createdAt of a message the user has; the post-save
\* step sets it to a time not earlier than the message's createdAt and not
\* earlier than its old value; no step of deleteMessage changes it, so it
\* stays set when the latest, or every, message has been deleted.
C29_LastPostTime ==
  /\ [](\A u \in Users :
          /\ (lastPostAt[u] = NULL) <=> ({c \in PostSaved : calls[c].user = u} = {})
          /\ \A c \in PostSaved : calls[c].user = u => calls[c].cat <= lastPostAt[u]
          /\ Quiet =>
               \A m \in MessagesOf(msgs, u) : msgs[m].createdAt <= lastPostAt[u])
  /\ [][\A c \in CallIds :
          /\ (calls[c].op = "delete" /\ Stepped(c)) => lastPostAt' = lastPostAt
          /\ (calls[c].pc = "postSave" /\ Stepped(c)) =>
               /\ lastPostAt'[calls[c].user] >= calls[c].cat
               /\ lastPostAt'[calls[c].user] >= lastPostAt[calls[c].user]
               /\ lastPostAt'[calls[c].user] # NULL]_vars

\* two messages were posted and both deleted: the user has no message and
\* lastPostAt is still the time of the second post
C29_Witness ==
  /\ Quiet
  /\ MessagesOf(msgs, "u1") = {}
  /\ postCount["u1"] = 0
  /\ Cardinality(PostSaved) = 2
  /\ Cardinality(WithOut("deleted")) = 2
  /\ lastPostAt["u1"] # NULL
  /\ lastPostAt["u1"] >= calls[2].cat

\* the start of the window a key belongs to
WindowStart(k) == k[2] * windowMs

\* C28, as stated: every counter that exists expires at windowStart + windowMs
\* of its own window, whenever in the window its first request arrived.
C28_AsStated ==
  \A k \in Keys :
    counter[k].count # 0 => counter[k].expireAt = WindowStart(k) + windowMs

\* C28, amended: a counter expires ttlSeconds = ceil(windowMs / 1000) seconds
\* after its first increment. The script that creates the key sets its expiry
\* to the time of that increment plus ttlSeconds, later increments and limited
\* calls leave it alone; so the expiry of an existing key is never before the
\* end of its window, and is later than that by as much as the first request
\* arrived after the window's start.
C28_ExpiryFromFirst ==
  /\ [](\A k \in Keys :
          counter[k].count # 0 =>
            /\ counter[k].expireAt >= WindowStart(k) + windowMs
            /\ counter[k].expireAt > now
            /\ counter[k].expireAt <= now + ttlSeconds * 1000)
  /\ [][\A c \in CallIds :
          (calls[c].pc = "eval" /\ Stepped(c)) =>
            LET k == <<calls[c].user, calls[c].kw>> IN
            /\ counter[k].count = 0 =>
                 counter'[k] = [count |-> 1, expireAt |-> now + ttlSeconds * 1000]
            /\ counter[k].count # 0 => counter'[k].expireAt = counter[k].expireAt]_vars

\* the first request of window 0 arrived one tick after the window's start:
\* the window is over and its key is still there, expiring one tick later
C28_Witness ==
  /\ now = windowMs
  /\ counter[<<"u1", 0>>].count # 0
  /\ counter[<<"u1", 0>>].expireAt = TickMs + ttlSeconds * 1000
  /\ counter[<<"u1", 0>>].expireAt > WindowStart(<<"u1", 0>>) + windowMs
  /\ calls[1].pc = "done" /\ calls[1].out = "success"

\* C30, as stated: updating the owner's statistics is part of the insert:
\* whenever postMessage has returned success, the owner's postCount was
\* incremented by one for that call and lastPostAt is set, a failure of that
\* update ending the call with an internal error instead. With posts only,
\* one after the other: postCount is the number of calls that returned success.
C30_AsStated ==
  \A u \in Users :
    Quiet =>
      /\ postCount[u] = Cardinality({c \in WithOut("success") : calls[c].user = u})
      /\ {c \in WithOut("success") : calls[c].user = u} # {} => lastPostAt[u] # NULL

\* the steps of message.save() before the document is stored
SavePcs == {"preUser", "preLatest", "preLink", "insert"}

\* C31: a RecordStore failure inside message.save() (the user or tail lookup,
\* the tail update, the insert) ends postMessage with the generic internal
\* error: a step of save() either does its work and moves to the next step or
\* ends the call with InternalError and no rate-limit detail, without another
\* checkAndRecordRequest and without building another message; a finished
\* call never runs again; and a call reports success only with its message
\* stored.
C31_SaveFailureTerminal ==
  /\ [][\A c \in CallIds :
          /\ (calls[c].pc \in SavePcs /\ Stepped(c)) =>
               \/ /\ calls'[c].pc = "done"
                  /\ calls'[c].out = "InternalError"
                  /\ calls'[c].info = NoInfo
                  /\ calls'[c].evals = calls[c].evals
                  /\ calls'[c].mid = calls[c].mid
                  /\ nextId' = nextId /\ counter' = counter
               \/ /\ calls[c].pc = "preUser" /\ calls'[c].pc = "preLatest"
               \/ /\ calls[c].pc = "preLatest" /\ calls'[c].pc \in {"preLink", "insert"}
               \/ /\ calls[c].pc = "preLink" /\ calls'[c].pc = "insert"
                  /\ msgs'[calls[c].prev].nextMessage = calls[c].mid
               \/ /\ calls[c].pc = "insert" /\ calls'[c].pc = "postSave"
                  /\ msgs'[calls[c].mid] # NoMsg
          /\ calls[c].pc = "done" => calls'[c] = calls[c]]_vars
  /\ [](\A c \in CallIds :
          /\ calls[c].out = "InternalError" =>
               calls[c].pc = "done" /\ calls[c].info = NoInfo
          /\ (calls[c].op = "post" /\ calls[c].out = "success") =>
               msgs[calls[c].mid] # NoMsg
          /\ calls[c].out = "RateLimited" => calls[c].rl.isLimited)

\* the first post was stored; the save of the second failed after it had read
\* the first as the tail, and the call ended with the internal error
C31_Witness ==
  /\ Quiet
  /\ calls[1].out = "success"
  /\ calls[2].out = "InternalError" /\ calls[2].info = NoInfo
  /\ calls[2].prev = 1 /\ calls[2].evals = 1
  /\ ~calls[2].rl.isLimited
  /\ msgs[calls[2].mid] = NoMsg

\* C32, as stated: the new record is created before the old tail's next is
\* updated, so in no reachable state does the next of an existing message
\* reference a message that has not been persisted.
C32_AsStated ==
  \A m \in MsgIds :
    (msgs[m] # NoMsg /\ msgs[m].nextMessage # NULL) =>
      msgs[msgs[m].nextMessage] # NoMsg

\* C38, as stated: a post whose record creation failed leaves the user's chain
\* as it was: no stored message references the id of the message that was not
\* created (the old tail's next is still null).
C38_AsStated ==
  \A c \in CallIds :
    ( /\ calls[c].op = "post" /\ calls[c].pc = "done"
      /\ calls[c].out = "InternalError" /\ calls[c].mid # NULL ) =>
      /\ msgs[calls[c].mid] = NoMsg
      /\ Referring(msgs, calls[c].mid) = {}

\* C33, as stated: in every reachable state every user's postCount is at least
\* 0, under any sequence of possibly concurrent posts and deletes.
C33_AsStated ==
  \A u \in Users : postCount[u] >= 0

\* the data of user b: the counters, the messages and the statistics
DataOf(b, cnt, ms, pcount, last) ==
  <<[w \in Windows |-> cnt[<<b, w>>]],
    [m \in MsgIds |-> IF ms[m].user = b THEN ms[m] ELSE NoMsg],
    pcount[b], last[b]>>

\* C34: operations on one user are independent of every other user. A step of
\* a postMessage, getRateLimitStatus, resetUserLimit or deleteMessage call
\* acting on user a leaves every other user's counters, messages, previous/next
\* references, postCount and lastPostAt as they are; the accept/reject decision
\* of a checkAndRecordRequest is a function of the caller's own counter alone;
\* the tail a save reads is a message of its own user, and no previous/next
\* reference leads from one user's message to another user's.
C34_UsersIndependent ==
  /\ [][\A c \in CallIds :
          Stepped(c) =>
            /\ \A b \in Users \ {calls'[c].user} :
                 DataOf(b, counter', msgs', postCount', lastPostAt') =
                   DataOf(b, counter, msgs, postCount, lastPostAt)
            /\ calls[c].pc = "eval" =>
                 LET k == <<calls[c].user, calls[c].kw>> IN
                 /\ calls'[c].rl.isLimited <=> counter[k].count >= maxRequests
                 /\ calls'[c].rl.currentCount = Min(counter[k].count + 1, maxRequests)
            /\ (calls[c].pc = "preLatest" /\ calls'[c].prev # NULL) =>
                 msgs[calls'[c].prev].user = calls[c].user]_vars
  /\ [](\A m \in MsgIds :
          msgs[m] # NoMsg =>
            /\ Exists(msgs, msgs[m].previousMessage) =>
                 msgs[msgs[m].previousMessage].user = msgs[m].user
            /\ Exists(msgs, msgs[m].nextMessage) =>
                 msgs[msgs[m].nextMessage].user = msgs[m].user)

\* u1 used up the quota with two posts while u2's post, which overlapped the
\* second of them, was admitted with currentCount = 1 and started u2's own
\* chain
C34_Witness ==
  /\ Quiet
  /\ counter[<<"u1", 0>>].count = maxRequests
  /\ calls[1].user = "u1" /\ calls[3].user = "u1"
  /\ calls[2].user = "u2" /\ calls[2].out = "success"
  /\ calls[2].mid = 3 /\ calls[3].mid = 2
  /\ calls[2].rl.currentCount = 1
  /\ counter[<<"u2", 0>>].count = 1
  /\ msgs[3].user = "u2" /\ msgs[3].previousMessage = NULL /\ msgs[3].nextMessage = NULL
  /\ msgs[1].nextMessage = 2 /\ msgs[2].previousMessage = 1
  /\ postCount = [u \in Users |-> IF u = "u1" THEN 2 ELSE 1]

\* the terminal outcomes of postMessage
Outcomes ==
  {"success", "ValidationError", "NotFoundError", "RateLimited", "InternalError"}

\* C35: every postMessage call that was started eventually ends, in exactly one
\* of the terminal outcomes, provided each store round trip eventually returns
\* or fails: a running call can always take its next step whatever the other
\* calls are doing, each step moves it forward (none is repeated), and a call
\* that has ended keeps its outcome.
C35_Terminates ==
  /\ \A c \in CallIds :
       (calls[c].pc # "new") ~> (calls[c].pc = "done" /\ calls[c].out \in Outcomes)
  /\ [](\A c \in CallIds :
          /\ Active(c) => ENABLED (PostStep(c) \/ SaveFails(c))
          /\ calls[c].pc = "done" => calls[c].out \in Outcomes)
  /\ [][\A c \in CallIds :
          /\ Stepped(c) => Rank(calls'[c].pc) > Rank(calls[c].pc)
          /\ calls[c].pc = "done" => calls'[c] = calls[c]]_vars

\* two overlapping calls have ended, the one that started first refused by the
\* rate limiter after the other had taken the last slot and posted
C35_Witness ==
  /\ AllDone /\ ncalls = 2
  /\ prior = maxRequests - 1
  /\ calls[1].out = "RateLimited"
  /\ calls[2].out = "success"
  /\ calls[2].mid # NULL /\ msgs[calls[2].mid] # NoMsg

\* the checkAndRecordRequest calls admitted so far on the key of window 0
AdmittedRecords ==
  {c \in Records :
     calls[c].kw = 0 /\ calls[c].rl # NoInfo /\ ~calls[c].rl.isLimited}

\* C36: concurrent checkAndRecordRequest calls on one key behave as some
\* sequential order of the same calls. While the key lives (inside its window,
\* no reset), with a counter that was prior and k callers admitted so far, the
\* currentCount values returned to the admitted callers are pairwise distinct
\* and are exactly prior + 1, ..., prior + k, the counter is prior + k, and
\* every rejected caller was returned maxRequests.
C36_Linearizable ==
  now < windowMs =>
    /\ \A c, d \in AdmittedRecords :
         c # d => calls[c].rl.currentCount # calls[d].rl.currentCount
    /\ {calls[c].rl.currentCount : c \in AdmittedRecords} =
         (prior + 1)..(prior + Cardinality(AdmittedRecords))
    /\ counter[TheKey].count = prior + Cardinality(AdmittedRecords)
    /\ \A c \in Records :
         (calls[c].kw = 0 /\ calls[c].rl.isLimited) =>
           calls[c].rl.currentCount = maxRequests

\* three overlapping callers from an empty counter: the second to call was
\* served first, the first to call second, and the third was refused
C36_Witness ==
  /\ now < windowMs /\ prior = 0 /\ AllDone
  /\ Records = {1, 2, 3}
  /\ calls[2].rl.currentCount = 1 /\ ~calls[2].rl.isLimited
  /\ calls[1].rl.currentCount = 2 /\ ~calls[1].rl.isLimited
  /\ calls[3].rl.isLimited

\* the calls before c that the rate limiter admitted on the key c used
AdmittedBefore(c) ==
  {d \in Admitted(calls[c].user, calls[c].kw) : d < c}

\* C37: deleteMessage never changes a rate-limit counter. No step of a delete
\* touches any key, so deleting messages gives no quota back: inside a window
\* a post is refused exactly when maxRequests earlier posts were admitted on
\* the window's key, however many of their messages have been deleted since,
\* and the key's count is the number of admitted posts, not of messages.
C37_DeleteKeepsQuota ==
  /\ [][\A c \in CallIds :
          (calls[c].op = "delete" /\ Stepped(c)) => counter' = counter]_vars
  /\ [](now < windowMs =>
          /\ \A c \in CallIds :
               (calls[c].op = "post" /\ calls[c].rl # NoInfo) =>
                 (calls[c].rl.isLimited <=>
                    Cardinality(AdmittedBefore(c)) >= maxRequests)
          /\ counter[TheKey].count = Cardinality(Admitted("u1", 0)))

\* two posts used up the quota, one of the messages was deleted, and the next
\* post in the same window was refused although the user has one message
C37_Witness ==
  /\ Quiet /\ now < windowMs
  /\ calls[1].out = "success" /\ calls[2].out = "success"
  /\ calls[3].op = "delete" /\ calls[3].out = "deleted"
  /\ calls[4].op = "post" /\ calls[4].out = "RateLimited"
  /\ Cardinality(MessagesOf(msgs, "u1")) = maxRequests - 1
  /\ postCount["u1"] = maxRequests - 1
  /\ counter[TheKey].count = maxRequests

\* C39, as stated: a deleteMessage call that ends with an error leaves the
\* state as it was before the call. For a client whose calls do not overlap:
\* in the step in which the call ends with NotFound or an internal failure, no
\* store is written, a target that was found is still stored, the neighbours it
\* had still reference it, and the owner's postCount is still the number of
\* the owner's messages.
C39_AsStated ==
  [][\A c \in CallIds :
       ( /\ calls[c].op = "delete" /\ Stepped(c)
         /\ calls'[c].pc = "done"
         /\ calls'[c].out \in {"NotFoundError", "InternalError"} ) =>
         /\ msgs' = msgs /\ postCount' = postCount
         /\ calls[c].pc # "delFind" =>
              LET m == calls[c].tgt IN
              /\ msgs[m] # NoMsg
              /\ calls[c].tprev # NULL => msgs[calls[c].tprev].nextMessage = m
              /\ calls[c].tnext # NULL => msgs[calls[c].tnext].previousMessage = m
              /\ postCount[calls[c].user] =
                   Cardinality(MessagesOf(msgs, calls[c].user))]_vars

====
